---- MODULE Spec2Model ----
(***************************************************************************)
(* A model of pdf_converter.py: the grouping of numeric spans, the         *)
(* classification and conversion of a numeric token, and the page loop of  *)
(* process_pdf (scan, redact, reinsert, save).                             *)
(*                                                                         *)
(* Text is a sequence of characters, each character a string: a printable  *)
(* ASCII character is the one-character string of itself, any other        *)
(* character is the string of its code point ("U+0009" is the tab,         *)
(* "U+00A0" the no-break space, "U+0663" the Arabic-Indic digit three);    *)
(* the degree sign U+00B0 is written DEG.                                  *)
(***************************************************************************)
EXTENDS Integers, Sequences, FiniteSets, TLC

VARIABLES
    token, results, collected,                    \* replacement_function on one token
    lines, lineNo, pos, groups, current, members, found,   \* group_numeric_spans
    doc, pc, pageNo, page_dict, blockNo, replacements, repNo, log   \* process_pdf

convVars == <<token, results, collected>>
groupVars == <<lines, lineNo, pos, groups, current, members, found>>
procVars == <<doc, pc, pageNo, page_dict, blockNo, replacements, repNo, log>>
vars == <<convVars, groupVars, procVars>>

(***************************************************************************)
(* Bounds of the model.                                                    *)
(***************************************************************************)
MaxTokLen == 4
MaxApply == 2
MaxSpans == 3
MaxPages == 2

(***************************************************************************)
(* Characters and text.  The character classes are those of the CPython    *)
(* 3.11 interpreter the program runs on (Unicode 14.0).                    *)
(***************************************************************************)
DEG == "deg"

\* [0-9] in a pattern
AsciiDigits == {"0", "1", "2", "3", "4", "5", "6", "7", "8", "9"}

DigitSeq == <<"0", "1", "2", "3", "4", "5", "6", "7", "8", "9">>

\* the other decimal digits (category Nd), one row per script, in the order
\* of their values 0..9
UnicodeDigitRows ==
    << <<"U+0660", "U+0661", "U+0662", "U+0663", "U+0664", "U+0665", "U+0666", "U+0667", "U+0668", "U+0669">>,
       <<"U+06F0", "U+06F1", "U+06F2", "U+06F3", "U+06F4", "U+06F5", "U+06F6", "U+06F7", "U+06F8", "U+06F9">>,
       <<"U+07C0", "U+07C1", "U+07C2", "U+07C3", "U+07C4", "U+07C5", "U+07C6", "U+07C7", "U+07C8", "U+07C9">>,
       <<"U+0966", "U+0967", "U+0968", "U+0969", "U+096A", "U+096B", "U+096C", "U+096D", "U+096E", "U+096F">>,
       <<"U+09E6", "U+09E7", "U+09E8", "U+09E9", "U+09EA", "U+09EB", "U+09EC", "U+09ED", "U+09EE", "U+09EF">>,
       <<"U+0A66", "U+0A67", "U+0A68", "U+0A69", "U+0A6A", "U+0A6B", "U+0A6C", "U+0A6D", "U+0A6E", "U+0A6F">>,
       <<"U+0AE6", "U+0AE7", "U+0AE8", "U+0AE9", "U+0AEA", "U+0AEB", "U+0AEC", "U+0AED", "U+0AEE", "U+0AEF">>,
       <<"U+0B66", "U+0B67", "U+0B68", "U+0B69", "U+0B6A", "U+0B6B", "U+0B6C", "U+0B6D", "U+0B6E", "U+0B6F">>,
       <<"U+0BE6", "U+0BE7", "U+0BE8", "U+0BE9", "U+0BEA", "U+0BEB", "U+0BEC", "U+0BED", "U+0BEE", "U+0BEF">>,
       <<"U+0C66", "U+0C67", "U+0C68", "U+0C69", "U+0C6A", "U+0C6B", "U+0C6C", "U+0C6D", "U+0C6E", "U+0C6F">>,
       <<"U+0CE6", "U+0CE7", "U+0CE8", "U+0CE9", "U+0CEA", "U+0CEB", "U+0CEC", "U+0CED", "U+0CEE", "U+0CEF">>,
       <<"U+0D66", "U+0D67", "U+0D68", "U+0D69", "U+0D6A", "U+0D6B", "U+0D6C", "U+0D6D", "U+0D6E", "U+0D6F">>,
       <<"U+0DE6", "U+0DE7", "U+0DE8", "U+0DE9", "U+0DEA", "U+0DEB", "U+0DEC", "U+0DED", "U+0DEE", "U+0DEF">>,
       <<"U+0E50", "U+0E51", "U+0E52", "U+0E53", "U+0E54", "U+0E55", "U+0E56", "U+0E57", "U+0E58", "U+0E59">>,
       <<"U+0ED0", "U+0ED1", "U+0ED2", "U+0ED3", "U+0ED4", "U+0ED5", "U+0ED6", "U+0ED7", "U+0ED8", "U+0ED9">>,
       <<"U+0F20", "U+0F21", "U+0F22", "U+0F23", "U+0F24", "U+0F25", "U+0F26", "U+0F27", "U+0F28", "U+0F29">>,
       <<"U+1040", "U+1041", "U+1042", "U+1043", "U+1044", "U+1045", "U+1046", "U+1047", "U+1048", "U+1049">>,
       <<"U+1090", "U+1091", "U+1092", "U+1093", "U+1094", "U+1095", "U+1096", "U+1097", "U+1098", "U+1099">>,
       <<"U+17E0", "U+17E1", "U+17E2", "U+17E3", "U+17E4", "U+17E5", "U+17E6", "U+17E7", "U+17E8", "U+17E9">>,
       <<"U+1810", "U+1811", "U+1812", "U+1813", "U+1814", "U+1815", "U+1816", "U+1817", "U+1818", "U+1819">>,
       <<"U+1946", "U+1947", "U+1948", "U+1949", "U+194A", "U+194B", "U+194C", "U+194D", "U+194E", "U+194F">>,
       <<"U+19D0", "U+19D1", "U+19D2", "U+19D3", "U+19D4", "U+19D5", "U+19D6", "U+19D7", "U+19D8", "U+19D9">>,
       <<"U+1A80", "U+1A81", "U+1A82", "U+1A83", "U+1A84", "U+1A85", "U+1A86", "U+1A87", "U+1A88", "U+1A89">>,
       <<"U+1A90", "U+1A91", "U+1A92", "U+1A93", "U+1A94", "U+1A95", "U+1A96", "U+1A97", "U+1A98", "U+1A99">>,
       <<"U+1B50", "U+1B51", "U+1B52", "U+1B53", "U+1B54", "U+1B55", "U+1B56", "U+1B57", "U+1B58", "U+1B59">>,
       <<"U+1BB0", "U+1BB1", "U+1BB2", "U+1BB3", "U+1BB4", "U+1BB5", "U+1BB6", "U+1BB7", "U+1BB8", "U+1BB9">>,
       <<"U+1C40", "U+1C41", "U+1C42", "U+1C43", "U+1C44", "U+1C45", "U+1C46", "U+1C47", "U+1C48", "U+1C49">>,
       <<"U+1C50", "U+1C51", "U+1C52", "U+1C53", "U+1C54", "U+1C55", "U+1C56", "U+1C57", "U+1C58", "U+1C59">>,
       <<"U+A620", "U+A621", "U+A622", "U+A623", "U+A624", "U+A625", "U+A626", "U+A627", "U+A628", "U+A629">>,
       <<"U+A8D0", "U+A8D1", "U+A8D2", "U+A8D3", "U+A8D4", "U+A8D5", "U+A8D6", "U+A8D7", "U+A8D8", "U+A8D9">>,
       <<"U+A900", "U+A901", "U+A902", "U+A903", "U+A904", "U+A905", "U+A906", "U+A907", "U+A908", "U+A909">>,
       <<"U+A9D0", "U+A9D1", "U+A9D2", "U+A9D3", "U+A9D4", "U+A9D5", "U+A9D6", "U+A9D7", "U+A9D8", "U+A9D9">>,
       <<"U+A9F0", "U+A9F1", "U+A9F2", "U+A9F3", "U+A9F4", "U+A9F5", "U+A9F6", "U+A9F7", "U+A9F8", "U+A9F9">>,
       <<"U+AA50", "U+AA51", "U+AA52", "U+AA53", "U+AA54", "U+AA55", "U+AA56", "U+AA57", "U+AA58", "U+AA59">>,
       <<"U+ABF0", "U+ABF1", "U+ABF2", "U+ABF3", "U+ABF4", "U+ABF5", "U+ABF6", "U+ABF7", "U+ABF8", "U+ABF9">>,
       <<"U+FF10", "U+FF11", "U+FF12", "U+FF13", "U+FF14", "U+FF15", "U+FF16", "U+FF17", "U+FF18", "U+FF19">>,
       <<"U+104A0", "U+104A1", "U+104A2", "U+104A3", "U+104A4", "U+104A5", "U+104A6", "U+104A7", "U+104A8", "U+104A9">>,
       <<"U+10D30", "U+10D31", "U+10D32", "U+10D33", "U+10D34", "U+10D35", "U+10D36", "U+10D37", "U+10D38", "U+10D39">>,
       <<"U+11066", "U+11067", "U+11068", "U+11069", "U+1106A", "U+1106B", "U+1106C", "U+1106D", "U+1106E", "U+1106F">>,
       <<"U+110F0", "U+110F1", "U+110F2", "U+110F3", "U+110F4", "U+110F5", "U+110F6", "U+110F7", "U+110F8", "U+110F9">>,
       <<"U+11136", "U+11137", "U+11138", "U+11139", "U+1113A", "U+1113B", "U+1113C", "U+1113D", "U+1113E", "U+1113F">>,
       <<"U+111D0", "U+111D1", "U+111D2", "U+111D3", "U+111D4", "U+111D5", "U+111D6", "U+111D7", "U+111D8", "U+111D9">>,
       <<"U+112F0", "U+112F1", "U+112F2", "U+112F3", "U+112F4", "U+112F5", "U+112F6", "U+112F7", "U+112F8", "U+112F9">>,
       <<"U+11450", "U+11451", "U+11452", "U+11453", "U+11454", "U+11455", "U+11456", "U+11457", "U+11458", "U+11459">>,
       <<"U+114D0", "U+114D1", "U+114D2", "U+114D3", "U+114D4", "U+114D5", "U+114D6", "U+114D7", "U+114D8", "U+114D9">>,
       <<"U+11650", "U+11651", "U+11652", "U+11653", "U+11654", "U+11655", "U+11656", "U+11657", "U+11658", "U+11659">>,
       <<"U+116C0", "U+116C1", "U+116C2", "U+116C3", "U+116C4", "U+116C5", "U+116C6", "U+116C7", "U+116C8", "U+116C9">>,
       <<"U+11730", "U+11731", "U+11732", "U+11733", "U+11734", "U+11735", "U+11736", "U+11737", "U+11738", "U+11739">>,
       <<"U+118E0", "U+118E1", "U+118E2", "U+118E3", "U+118E4", "U+118E5", "U+118E6", "U+118E7", "U+118E8", "U+118E9">>,
       <<"U+11950", "U+11951", "U+11952", "U+11953", "U+11954", "U+11955", "U+11956", "U+11957", "U+11958", "U+11959">>,
       <<"U+11C50", "U+11C51", "U+11C52", "U+11C53", "U+11C54", "U+11C55", "U+11C56", "U+11C57", "U+11C58", "U+11C59">>,
       <<"U+11D50", "U+11D51", "U+11D52", "U+11D53", "U+11D54", "U+11D55", "U+11D56", "U+11D57", "U+11D58", "U+11D59">>,
       <<"U+11DA0", "U+11DA1", "U+11DA2", "U+11DA3", "U+11DA4", "U+11DA5", "U+11DA6", "U+11DA7", "U+11DA8", "U+11DA9">>,
       <<"U+16A60", "U+16A61", "U+16A62", "U+16A63", "U+16A64", "U+16A65", "U+16A66", "U+16A67", "U+16A68", "U+16A69">>,
       <<"U+16AC0", "U+16AC1", "U+16AC2", "U+16AC3", "U+16AC4", "U+16AC5", "U+16AC6", "U+16AC7", "U+16AC8", "U+16AC9">>,
       <<"U+16B50", "U+16B51", "U+16B52", "U+16B53", "U+16B54", "U+16B55", "U+16B56", "U+16B57", "U+16B58", "U+16B59">>,
       <<"U+1D7CE", "U+1D7CF", "U+1D7D0", "U+1D7D1", "U+1D7D2", "U+1D7D3", "U+1D7D4", "U+1D7D5", "U+1D7D6", "U+1D7D7">>,
       <<"U+1D7D8", "U+1D7D9", "U+1D7DA", "U+1D7DB", "U+1D7DC", "U+1D7DD", "U+1D7DE", "U+1D7DF", "U+1D7E0", "U+1D7E1">>,
       <<"U+1D7E2", "U+1D7E3", "U+1D7E4", "U+1D7E5", "U+1D7E6", "U+1D7E7", "U+1D7E8", "U+1D7E9", "U+1D7EA", "U+1D7EB">>,
       <<"U+1D7EC", "U+1D7ED", "U+1D7EE", "U+1D7EF", "U+1D7F0", "U+1D7F1", "U+1D7F2", "U+1D7F3", "U+1D7F4", "U+1D7F5">>,
       <<"U+1D7F6", "U+1D7F7", "U+1D7F8", "U+1D7F9", "U+1D7FA", "U+1D7FB", "U+1D7FC", "U+1D7FD", "U+1D7FE", "U+1D7FF">>,
       <<"U+1E140", "U+1E141", "U+1E142", "U+1E143", "U+1E144", "U+1E145", "U+1E146", "U+1E147", "U+1E148", "U+1E149">>,
       <<"U+1E2F0", "U+1E2F1", "U+1E2F2", "U+1E2F3", "U+1E2F4", "U+1E2F5", "U+1E2F6", "U+1E2F7", "U+1E2F8", "U+1E2F9">>,
       <<"U+1E950", "U+1E951", "U+1E952", "U+1E953", "U+1E954", "U+1E955", "U+1E956", "U+1E957", "U+1E958", "U+1E959">>,
       <<"U+1FBF0", "U+1FBF1", "U+1FBF2", "U+1FBF3", "U+1FBF4", "U+1FBF5", "U+1FBF6", "U+1FBF7", "U+1FBF8", "U+1FBF9">> >>

\* \d of a str pattern, and the digits float() reads: every decimal digit
DigitChars ==
    AsciiDigits
    \cup {UnicodeDigitRows[r][i] : r \in 1..Len(UnicodeDigitRows), i \in 1..10}

\* str.strip() with no argument removes the characters of str.isspace()
Whitespace ==
    {"U+0009", "U+000A", "U+000B", "U+000C", "U+000D",
     "U+001C", "U+001D", "U+001E", "U+001F", " ",
     "U+0085", "U+00A0", "U+1680",
     "U+2000", "U+2001", "U+2002", "U+2003", "U+2004", "U+2005",
     "U+2006", "U+2007", "U+2008", "U+2009", "U+200A",
     "U+2028", "U+2029", "U+202F", "U+205F", "U+3000"}

\* float() skips the same characters but the four separators U+001C..U+001F
FloatWhitespace == Whitespace \ {"U+001C", "U+001D", "U+001E", "U+001F"}

DigitVal(c) ==
    IF c \in AsciiDigits
    THEN (CHOOSE i \in 1..10 : DigitSeq[i] = c) - 1
    ELSE (CHOOSE i \in 1..10 :
              \E r \in 1..Len(UnicodeDigitRows) : UnicodeDigitRows[r][i] = c) - 1

DigitChar(d) == DigitSeq[d + 1]

RECURSIVE Pow10(_)
Pow10(k) == IF k = 0 THEN 1 ELSE 10 * Pow10(k - 1)

\* str.strip(): leading and trailing whitespace removed
RECURSIVE LStrip(_)
LStrip(s) == IF Len(s) > 0 /\ s[1] \in Whitespace THEN LStrip(Tail(s)) ELSE s

RECURSIVE RStrip(_)
RStrip(s) ==
    IF Len(s) > 0 /\ s[Len(s)] \in Whitespace
    THEN RStrip(SubSeq(s, 1, Len(s) - 1))
    ELSE s

Strip(s) == RStrip(LStrip(s))

Contains(s, c) == \E i \in 1..Len(s) : s[i] = c

FirstIndex(s, c) == CHOOSE i \in 1..Len(s) : s[i] = c /\ \A j \in 1..(i - 1) : s[j] # c

\* str.split(d) for a one-character separator d
RECURSIVE SplitOn(_, _)
SplitOn(s, d) ==
    IF ~Contains(s, d)
    THEN <<s>>
    ELSE LET k == FirstIndex(s, d)
         IN  <<SubSeq(s, 1, k - 1)>> \o SplitOn(SubSeq(s, k + 1, Len(s)), d)

\* d.join(parts)
RECURSIVE JoinWith(_, _)
JoinWith(parts, d) ==
    IF Len(parts) = 0 THEN <<>>
    ELSE IF Len(parts) = 1 THEN parts[1]
    ELSE parts[1] \o <<d>> \o JoinWith(Tail(parts), d)

(***************************************************************************)
(* float(value_str).  The text is stripped of float's whitespace and an    *)
(* optional sign is read.  What is left is one of the words inf, infinity  *)
(* and nan in any letter case, or a decimal literal: digits with at most   *)
(* one '.', holding at least one digit, then optionally e or E, an         *)
(* optional sign and digits.  A run of digits may hold single underscores  *)
(* between two digits.  Anything else raises ValueError.                   *)
(*                                                                         *)
(* A literal of 310 or more digits before the decimal point is beyond the  *)
(* largest double and reads as an infinity.                                *)
(***************************************************************************)
Unsigned(s) == IF Len(s) > 0 /\ s[1] \in {"+", "-"} THEN Tail(s) ELSE s

RECURSIVE FloatLStrip(_)
FloatLStrip(s) ==
    IF Len(s) > 0 /\ s[1] \in FloatWhitespace THEN FloatLStrip(Tail(s)) ELSE s

RECURSIVE FloatRStrip(_)
FloatRStrip(s) ==
    IF Len(s) > 0 /\ s[Len(s)] \in FloatWhitespace
    THEN FloatRStrip(SubSeq(s, 1, Len(s) - 1))
    ELSE s

FloatStrip(s) == FloatRStrip(FloatLStrip(s))

LowerLetter(c) ==
    CASE c = "A" -> "a"
      [] c = "F" -> "f"
      [] c = "I" -> "i"
      [] c = "N" -> "n"
      [] c = "T" -> "t"
      [] c = "Y" -> "y"
      [] OTHER -> c

LowerText(s) == [i \in 1..Len(s) |-> LowerLetter(s[i])]

IsInfWord(u) ==
    LowerText(u) \in {<<"i", "n", "f">>, <<"i", "n", "f", "i", "n", "i", "t", "y">>}

IsNanWord(u) == LowerText(u) = <<"n", "a", "n">>

\* digits, with single underscores allowed between two digits
IsDigitPart(s) ==
    /\ Len(s) > 0
    /\ s[1] \in DigitChars
    /\ s[Len(s)] \in DigitChars
    /\ \A i \in 1..Len(s) : s[i] \in DigitChars \cup {"_"}
    /\ \A i \in 1..(Len(s) - 1) : ~(s[i] = "_" /\ s[i + 1] = "_")

HasExponent(u) == \E i \in 1..Len(u) : u[i] \in {"e", "E"}

ExponentIndex(u) ==
    CHOOSE i \in 1..Len(u) :
        u[i] \in {"e", "E"} /\ \A j \in 1..(i - 1) : u[j] \notin {"e", "E"}

MantissaText(u) == IF HasExponent(u) THEN SubSeq(u, 1, ExponentIndex(u) - 1) ELSE u

ExponentText(u) ==
    IF HasExponent(u) THEN SubSeq(u, ExponentIndex(u) + 1, Len(u)) ELSE <<>>

IsMantissa(m) ==
    LET parts == SplitOn(m, ".")
    IN  \/ Len(parts) = 1 /\ IsDigitPart(m)
        \/ /\ Len(parts) = 2
           /\ parts[1] = <<>> \/ IsDigitPart(parts[1])
           /\ parts[2] = <<>> \/ IsDigitPart(parts[2])
           /\ parts[1] # <<>> \/ parts[2] # <<>>

IsDecimalLiteral(u) ==
    /\ IsMantissa(MantissaText(u))
    /\ HasExponent(u) => IsDigitPart(Unsigned(ExponentText(u)))

IsFloatLiteralNoDigit(value_str) ==
    LET u == Unsigned(FloatStrip(value_str))
    IN  u = <<>> \/ IsInfWord(u) \/ IsNanWord(u) \/ IsDecimalLiteral(u)

IsFloatLiteral(value_str) ==
    LET u == Unsigned(FloatStrip(value_str))
    IN  IsInfWord(u) \/ IsNanWord(u) \/ IsDecimalLiteral(u)

(***************************************************************************)
(* Natural numbers of any size, as sequences of decimal digits with the    *)
(* least significant digit first and no leading zero (zero is <<>>): the   *)
(* integers behind a double do not fit a machine word.  Carries are found  *)
(* by looking down the digits and long division halves its dividend, so    *)
(* that no operation nests deeper than the logarithm of its operand.       *)
(***************************************************************************)
RECURSIVE BigOf(_)
BigOf(n) == IF n = 0 THEN <<>> ELSE <<n % 10>> \o BigOf(n \div 10)

RECURSIVE BigValue(_)
BigValue(a) == IF a = <<>> THEN 0 ELSE a[1] + 10 * BigValue(Tail(a))

BigDigit(a, i) == IF i <= Len(a) THEN a[i] ELSE 0

\* the number of zeros at the top of the digits a
BigLeadingZeros(a) ==
    CHOOSE z \in 0..Len(a) :
        /\ z = Len(a) \/ a[Len(a) - z] # 0
        /\ \A j \in 1..z : a[Len(a) + 1 - j] = 0

BigTrim(a) == SubSeq(a, 1, Len(a) - BigLeadingZeros(a))

\* how far below place i the nearest place lies whose digits do not add up
\* to 9 (i itself when there is none)
BigCarryGap(a, b, i) ==
    CHOOSE k \in 1..i :
        /\ k = i \/ BigDigit(a, i - k) + BigDigit(b, i - k) # 9
        /\ \A l \in 1..(k - 1) : BigDigit(a, i - l) + BigDigit(b, i - l) = 9

\* the carry out of place j of a + b when no carry comes in
BigCarryAt(a, b, j) ==
    IF j >= 1 /\ BigDigit(a, j) + BigDigit(b, j) >= 10 THEN 1 ELSE 0

\* the carry into place i of a + b: decided by the nearest place below i
\* whose digits do not add up to 9
BigCarry(a, b, i) == BigCarryAt(a, b, i - BigCarryGap(a, b, i))

BigAdd(a, b) ==
    BigTrim([i \in 1..((IF Len(a) >= Len(b) THEN Len(a) ELSE Len(b)) + 1) |->
                (BigDigit(a, i) + BigDigit(b, i) + BigCarry(a, b, i)) % 10])

\* how far below place i the nearest place lies whose digits differ (i
\* itself when there is none)
BigBorrowGap(a, b, i) ==
    CHOOSE k \in 1..i :
        /\ k = i \/ BigDigit(a, i - k) # BigDigit(b, i - k)
        /\ \A l \in 1..(k - 1) : BigDigit(a, i - l) = BigDigit(b, i - l)

\* the borrow out of place j of a - b when no borrow comes in
BigBorrowAt(a, b, j) == IF j >= 1 /\ BigDigit(a, j) < BigDigit(b, j) THEN 1 ELSE 0

\* the borrow from place i of a - b: decided by the nearest place below i
\* whose digits differ
BigBorrow(a, b, i) == BigBorrowAt(a, b, i - BigBorrowGap(a, b, i))

\* a - b for a >= b
BigSub(a, b) ==
    BigTrim([i \in 1..Len(a) |->
                (BigDigit(a, i) - BigDigit(b, i) - BigBorrow(a, b, i) + 10) % 10])

BigLess(a, b) ==
    \/ Len(a) < Len(b)
    \/ /\ Len(a) = Len(b)
       /\ \E i \in 1..Len(a) : a[i] < b[i] /\ \A j \in (i + 1)..Len(a) : a[j] = b[j]

BigTimesPow10(a, k) == IF a = <<>> THEN a ELSE [i \in 1..k |-> 0] \o a

\* a * 2^k
RECURSIVE BigTimesPow2(_, _)
BigTimesPow2(a, k) ==
    IF a = <<>> \/ k = 0 THEN a
    ELSE IF k = 1 THEN BigAdd(a, a)
    ELSE BigTimesPow2(BigTimesPow2(a, k \div 2), k - (k \div 2))

\* one more subtraction of the divisor
DigitUp(g) == [q |-> g.q + 1, r |-> g.r]

\* quotient (a digit) and remainder of x by d, for x < 10 * d
RECURSIVE DigitDiv(_, _)
DigitDiv(x, d) ==
    IF BigLess(x, d) THEN [q |-> 0, r |-> x] ELSE DigitUp(DigitDiv(BigSub(x, d), d))

\* one step of long division: the digit c brought down to the remainder r
DigitStep(g) == [q |-> <<g.q>>, r |-> g.r]

\* the quotient digits q of the upper half before those of the lower half
BigDivGlue(q, lo) == [q |-> q \o lo.q, r |-> lo.r]

\* long division by d of the digits s, most significant first, entered with
\* the remainder r of the digits before them
RECURSIVE BigDivFrom(_, _, _)
RECURSIVE BigDivJoin(_, _, _)
BigDivFrom(r, s, d) ==
    IF Len(s) = 1
    THEN DigitStep(DigitDiv(IF r = <<>> /\ s[1] = 0 THEN <<>> ELSE <<s[1]>> \o r, d))
    ELSE BigDivJoin(BigDivFrom(r, SubSeq(s, 1, Len(s) \div 2), d),
                    SubSeq(s, (Len(s) \div 2) + 1, Len(s)), d)

\* the lower half s, entered with the remainder of the upper half hi
BigDivJoin(hi, s, d) == BigDivGlue(hi.q, BigDivFrom(hi.r, s, d))

BigReverse(s) == [i \in 1..Len(s) |-> s[Len(s) + 1 - i]]

\* the quotient digits of a long division x turned least significant first
BigDivResult(x) == [q |-> BigTrim(BigReverse(x.q)), r |-> x.r]

\* quotient and remainder of n by d > 0
BigDivMod(n, d) ==
    IF n = <<>> THEN [q |-> <<>>, r |-> <<>>]
    ELSE BigDivResult(BigDivFrom(<<>>, BigReverse(n), d))

\* the quotient q moved to its nearest integer, a tie to the even one, by
\* twice the remainder against the divisor d
BigRoundTo(q, twice, d) ==
    IF BigLess(d, twice) \/ (twice = d /\ q # <<>> /\ q[1] % 2 = 1)
    THEN BigAdd(q, <<1>>)
    ELSE q

BigRoundOf(x, d) == BigRoundTo(x.q, BigAdd(x.r, x.r), d)

\* n / d rounded to the nearest integer, a tie to the even one
BigRoundDiv(n, d) == BigRoundOf(BigDivMod(n, d), d)

\* the least b from `b` on with a < p * 2^(b - from), entered with p = 2^b
RECURSIVE BigBitsFrom(_, _, _)
BigBitsFrom(a, p, b) == IF BigLess(a, p) THEN b ELSE BigBitsFrom(a, BigAdd(p, p), b + 1)

\* the number of bits of a: the b with 2^(b-1) <= a < 2^b, looked for from
\* where the number of digits of a puts it (3.321 < log2(10))
BigBits(a) ==
    IF a = <<>> THEN 0
    ELSE BigBitsFrom(a, BigTimesPow2(<<1>>, (((Len(a) - 1) * 3321) \div 1000) + 1),
                     (((Len(a) - 1) * 3321) \div 1000) + 1)

(***************************************************************************)
(* The literal float() reads: nan, an infinity (by name, or a number       *)
(* beyond the doubles), or neg, mant / 10^scale with mant a natural number *)
(* of any size; the double it becomes is DoubleOfDecimal(mant, scale).     *)
(* A number too small for any double reads as zero.  The exponent is an    *)
(* integer of any size; `before`, the place of the first significant       *)
(* digit against the point (0.d1d2... * 10^before), decides the range.     *)
(***************************************************************************)
IsDigit(c) == c \in DigitChars

\* the number written by a run of digits without leading zeros
BigOfDigits(s) == [i \in 1..Len(s) |-> DigitVal(s[Len(s) + 1 - i])]

\* the number of zeros the digits s start with
LeadingZeros(s) ==
    CHOOSE z \in 0..Len(s) :
        /\ z = Len(s) \/ DigitVal(s[z + 1]) # 0
        /\ \A j \in 1..z : DigitVal(s[j]) = 0

SkipZeros(s) == SubSeq(s, LeadingZeros(s) + 1, Len(s))

\* a literal of more than 309 digits before the point is beyond every double
\* (the largest is below 1.8 * 10^308), one below 10^-324 is under half the
\* smallest (4.9 * 10^-324)
MAX_DIGITS_BEFORE_POINT == 309
MIN_DIGITS_BEFORE_POINT == -323

\* x + y on integers of any size, each a sign and a magnitude
SignedAdd(x, y) ==
    IF x.neg = y.neg THEN [neg |-> x.neg, mag |-> BigAdd(x.mag, y.mag)]
    ELSE IF BigLess(x.mag, y.mag) THEN [neg |-> y.neg, mag |-> BigSub(y.mag, x.mag)]
    ELSE [neg |-> x.neg, mag |-> BigSub(x.mag, y.mag)]

\* the exponent of a decimal literal, read exactly whatever its length
ExponentValue(x) ==
    [neg |-> Len(x) > 0 /\ x[1] = "-",
     mag |-> BigOfDigits(SkipZeros(SelectSeq(Unsigned(x), IsDigit)))]

(***************************************************************************)
(* Doubles.  A finite positive double is m * 2^e with 2^52 <= m < 2^53     *)
(* and -1074 <= e <= 971 (normal), or with 0 < m < 2^52 and e = -1074      *)
(* (subnormal: fewer bits); zero is m = 0, and what rounds beyond the      *)
(* largest double is an infinity.  Every operation of the program on       *)
(* doubles (reading a literal, the division) rounds its exact result to    *)
(* the nearest double, ties to even.                                       *)
(***************************************************************************)
MANTISSA_BITS == 53
MIN_EXPONENT == -1074
MAX_EXPONENT == 971

DoubleZero == [inf |-> FALSE, m |-> <<>>, e |-> MIN_EXPONENT]

DoubleInf == [inf |-> TRUE, m |-> <<>>, e |-> MAX_EXPONENT]

\* m * 2^e, an infinity when beyond the largest double
DoubleRanged(m, e) ==
    IF e > MAX_EXPONENT THEN DoubleInf ELSE [inf |-> FALSE, m |-> m, e |-> e]

\* m * 2^e with m of at most 53 or, after a rounding that carried, 54 bits
DoubleRounded(m, e) ==
    IF m = <<>> THEN DoubleZero
    ELSE IF BigBits(m) > MANTISSA_BITS
    THEN DoubleRanged(BigDivMod(m, <<2>>).q, e + 1)
    ELSE DoubleRanged(m, e)

\* (n / d) * 2^e with the quotient moved by s bits and rounded
DoubleShifted(n, d, e, s) ==
    DoubleRounded(BigRoundDiv(IF s >= 0 THEN BigTimesPow2(n, s) ELSE n,
                              IF s >= 0 THEN d ELSE BigTimesPow2(d, 0 - s)),
                  e - s)

\* the bits to move a quotient of `bits` bits at exponent e: to 53 bits,
\* or to fewer where that would take the exponent under -1074
DoubleShift(bits, e) ==
    IF e - (MANTISSA_BITS - bits) < MIN_EXPONENT
    THEN e - MIN_EXPONENT
    ELSE MANTISSA_BITS - bits

\* (n / d) * 2^e for n >= d
DoubleAligned(n, d, e) ==
    DoubleShifted(n, d, e, DoubleShift(BigBits(BigDivMod(n, d).q), e))

\* (n / d) * 2^e with n first lifted by `lift` bits to reach d
DoubleLifted(n, d, e, lift) == DoubleAligned(BigTimesPow2(n, lift), d, e - lift)

\* the double nearest to (n / d) * 2^e, for n, d > 0
DoubleOf(n, d, e) ==
    DoubleLifted(n, d, e, IF BigLess(n, d) THEN BigBits(BigDivMod(d, n).q) ELSE 0)

\* float() of the decimal literal mant / 10^scale
DoubleOfDecimal(mant, scale) ==
    IF mant = <<>> \/ Len(mant) - scale < MIN_DIGITS_BEFORE_POINT
    THEN DoubleZero
    ELSE IF Len(mant) - scale > MAX_DIGITS_BEFORE_POINT
    THEN DoubleInf
    ELSE DoubleOf(BigTimesPow10(mant, IF scale < 0 THEN 0 - scale ELSE 0),
                  BigTimesPow10(<<1>>, IF scale > 0 THEN scale ELSE 0),
                  0)

\* a / b on doubles, b finite and not zero (the factor)
DoubleDiv(a, b) ==
    IF a.inf THEN DoubleInf
    ELSE IF a.m = <<>> THEN DoubleZero
    ELSE DoubleOf(a.m, b.m, a.e - b.e)

\* round(x * 10^precision) as the format {x:.{precision}f} rounds a finite
\* x: exactly
DoubleScaled(x, precision) ==
    IF x.e >= 0
    THEN BigTimesPow2(BigTimesPow10(x.m, precision), x.e)
    ELSE BigRoundDiv(BigTimesPow10(x.m, precision), BigTimesPow2(<<1>>, 0 - x.e))

\* what the format prints of x: inf, or the digits q of x * 10^precision
DoubleDigits(x, precision) ==
    IF x.inf THEN [inf |-> TRUE, q |-> <<>>]
    ELSE [inf |-> FALSE, q |-> DoubleScaled(x, precision)]

\* the digits, read as digits / 10^scale, round to no finite double; below
\* 309 digits before the point the number is under 10^308 and finite
DecimalOverflows(digits, scale) ==
    /\ Len(digits) - scale >= MAX_DIGITS_BEFORE_POINT
    /\ DoubleOfDecimal(BigOfDigits(digits), scale).inf

ParseFloat(value_str) ==
    LET t == FloatStrip(value_str)
        neg == Len(t) > 0 /\ t[1] = "-"
        u == Unsigned(t)
        m == MantissaText(u)
        digits == SkipZeros(SelectSeq(m, IsDigit))
        fraction == IF Contains(m, ".")
                    THEN Len(SelectSeq(SubSeq(m, FirstIndex(m, ".") + 1, Len(m)), IsDigit))
                    ELSE 0
        before == SignedAdd([neg |-> Len(digits) < fraction,
                             mag |-> BigOf(IF Len(digits) < fraction
                                           THEN fraction - Len(digits)
                                           ELSE Len(digits) - fraction)],
                            ExponentValue(ExponentText(u)))
        scale == Len(digits) - (IF before.neg THEN 0 - BigValue(before.mag)
                                ELSE BigValue(before.mag))
    IN  IF IsNanWord(u)
        THEN [kind |-> "nan", neg |-> FALSE, mant |-> <<>>, scale |-> 0]
        ELSE IF IsInfWord(u)
        THEN [kind |-> "inf", neg |-> neg, mant |-> <<>>, scale |-> 0]
        ELSE IF digits = <<>>
        THEN [kind |-> "finite", neg |-> neg, mant |-> <<>>, scale |-> 0]
        ELSE IF ~before.neg /\ BigLess(BigOf(MAX_DIGITS_BEFORE_POINT), before.mag)
        THEN [kind |-> "inf", neg |-> neg, mant |-> <<>>, scale |-> 0]
        ELSE IF before.neg /\ BigLess(BigOf(0 - MIN_DIGITS_BEFORE_POINT), before.mag)
        THEN [kind |-> "finite", neg |-> neg, mant |-> <<>>, scale |-> 0]
        ELSE IF DecimalOverflows(digits, scale)
        THEN [kind |-> "inf", neg |-> neg, mant |-> <<>>, scale |-> 0]
        ELSE [kind |-> "finite", neg |-> neg, mant |-> BigOfDigits(digits),
              scale |-> scale]

(***************************************************************************)
(* value / factor to `precision` fractional digits, as the format          *)
(* f"{converted:.{precision}f}" prints it.  With factor = den / 10^shift   *)
(* (25.4 = 254/10, 2.54 = 254/100) the exact scaled quotient is            *)
(*   mant * 10^(shift + precision - scale) / den.                          *)
(* While the value and the quotient are normal doubles, the double the     *)
(* program divides into is within a few units of 2^-53 (relative) of the   *)
(* exact quotient.  While the scaled quotient is also below 10^9 it        *)
(* therefore rounds as the exact quotient does, by long division on        *)
(* machine integers, unless that lies exactly half way between two         *)
(* candidates; there, for larger operands and for values under 10^-306     *)
(* (near or in the subnormal range), the rounding errors of float(), of    *)
(* the factor's literal and of the division decide, and the doubles are    *)
(* computed.  The result is inf, or the digits q of the scaled quotient.   *)
(***************************************************************************)
RECURSIVE DivScaled(_, _, _)
DivScaled(n, den, k) ==
    IF k = 0
    THEN [q |-> n \div den, r |-> n % den]
    ELSE LET p == DivScaled(n, den, k - 1)
         IN  [q |-> p.q * 10 + ((p.r * 10) \div den), r |-> (p.r * 10) % den]

RoundTruncate(d) == d.q

\* off a tie: up when the remainder is more than half the divisor
RoundNearest(d) == IF 2 * d.r > d.den THEN d.q + 1 ELSE d.q

\* converted = value / factor, then rounded by the format, on doubles
DoubleQuotient(mant, scale, den, shift, precision) ==
    DoubleDigits(DoubleDiv(DoubleOfDecimal(mant, scale),
                           DoubleOfDecimal(BigOf(den), shift)),
                 precision)

\* a value of at least 10^-306: it and its quotient by the factor are normal
MIN_NORMAL_DIGITS == -305

ScaledQuotient(mant, scale, den, shift, precision) ==
    LET k == shift + precision - scale
        small == /\ Len(mant) - scale >= MIN_NORMAL_DIGITS
                 /\ IF k >= 0 THEN Len(mant) + k <= 9 ELSE Len(mant) <= 9 /\ 0 - k <= 6
        dd == IF k >= 0 THEN den ELSE den * Pow10(0 - k)
        d == DivScaled(BigValue(mant), dd, IF k >= 0 THEN k ELSE 0)
    IN  IF mant = <<>> \/ (k < 0 /\ Len(mant) <= 0 - k)
        THEN [inf |-> FALSE, q |-> <<>>]
             \* zero, or below 10^precision / den: far under a half
        ELSE IF small /\ 2 * d.r # dd
        THEN [inf |-> FALSE,
              q |-> BigOf(RoundNearest([q |-> d.q, r |-> d.r, den |-> dd]))]
        ELSE DoubleQuotient(mant, scale, den, shift, precision)

ZeroPad(s, width) ==
    IF Len(s) >= width THEN s ELSE [i \in 1..(width - Len(s)) |-> "0"] \o s

\* the digits of a, most significant first
BigText(a) == [i \in 1..Len(a) |-> DigitChar(a[Len(a) + 1 - i])]

FormatFixed(neg, q, precision) ==
    LET digits == ZeroPad(BigText(q), precision + 1)
        whole == Len(digits) - precision
    IN  (IF neg THEN <<"-">> ELSE <<>>)
        \o SubSeq(digits, 1, whole)
        \o (IF precision > 0
            THEN <<".">> \o SubSeq(digits, whole + 1, Len(digits))
            ELSE <<>>)

\* the format of a value that is no finite number: nan carries no sign
FormatNonFinite(kind, neg) ==
    IF kind = "nan" THEN <<"n", "a", "n">>
    ELSE (IF neg THEN <<"-">> ELSE <<>>) \o <<"i", "n", "f">>

\* f"{converted:.{precision}f}" of the quotient r
FormatQuotient(neg, r, precision) ==
    IF r.inf THEN FormatNonFinite("inf", neg) ELSE FormatFixed(neg, r.q, precision)

MM_FACTOR_X10 == 254

OnParseFailureEmpty(value_str) == <<>>

\* except ValueError: return value_str
OnParseFailure(value_str) == value_str

\* the ValueError a format raises: no text
ValueError == <<"ValueError">>

\* convert_value(value_str, unit, precision); a negative precision is no
\* format specifier, and the format of line 34 raises
convert_value(value_str, unit, precision) ==
    IF ~IsFloatLiteral(value_str)
    THEN OnParseFailure(value_str)
    ELSE IF precision < 0
    THEN ValueError
    ELSE LET v == ParseFloat(value_str)
             shift == IF unit \in {"mm", "MM", "Mm", "mM"} THEN 1 ELSE 2
         IN  IF v.kind # "finite"
             THEN FormatNonFinite(v.kind, v.neg)
             ELSE FormatQuotient(v.neg,
                                 ScaledQuotient(v.mant, v.scale, MM_FACTOR_X10, shift,
                                                precision),
                                 precision)

(***************************************************************************)
(* replacement_function(text)                                              *)
(***************************************************************************)
SplitToleranceNoPrefix(text) ==
    LET split_plus == SplitOn(text, "+")
        split_minus == SplitOn(text, "-")
    IN  IF Len(split_plus) > 1
        THEN [base_number |-> split_plus[1], tolerance |-> JoinWith(Tail(split_plus), "+")]
        ELSE IF Len(split_minus) > 1
        THEN [base_number |-> split_minus[1], tolerance |-> JoinWith(Tail(split_minus), "-")]
        ELSE [base_number |-> text, tolerance |-> <<>>]

SplitToleranceMinusFirst(text) ==
    LET split_plus == SplitOn(text, "+")
        split_minus == SplitOn(text, "-")
    IN  IF Len(split_minus) > 1
        THEN [base_number |-> split_minus[1],
              tolerance |-> <<"-">> \o JoinWith(Tail(split_minus), "-")]
        ELSE IF Len(split_plus) > 1
        THEN [base_number |-> split_plus[1],
              tolerance |-> <<"+">> \o JoinWith(Tail(split_plus), "+")]
        ELSE [base_number |-> text, tolerance |-> <<>>]

SplitTolerance(text) ==
    LET split_plus == SplitOn(text, "+")
        split_minus == SplitOn(text, "-")
    IN  IF Len(split_plus) > 1
        THEN [base_number |-> split_plus[1],
              tolerance |-> <<"+">> \o JoinWith(Tail(split_plus), "+")]
        ELSE IF Len(split_minus) > 1
        THEN [base_number |-> split_minus[1],
              tolerance |-> <<"-">> \o JoinWith(Tail(split_minus), "-")]
        ELSE [base_number |-> text, tolerance |-> <<>>]

DEFAULT_PRECISION == 4

PrecisionDefault(base_number) == DEFAULT_PRECISION

Precision(base_number) ==
    LET parts == SplitOn(base_number, ".")
    IN  IF Len(parts) > 1 THEN Len(parts[2]) ELSE DEFAULT_PRECISION

\* "°" in text
HasDegree(text) == Contains(text, DEG)

HasGDTInBase(text) ==
    LET base == SplitTolerance(text).base_number
    IN  \E i \in 1..(Len(base) - 2) :
            /\ base[i] \in DigitChars
            /\ base[i + 1] \in {"x", "X"}
            /\ base[i + 2] \in DigitChars

\* re.search(r'\d[xX]\d', text)
HasGDT(text) ==
    \E i \in 1..(Len(text) - 2) :
        /\ text[i] \in DigitChars
        /\ text[i + 1] \in {"x", "X"}
        /\ text[i + 2] \in DigitChars

\* result = converted + tolerance; except ValueError: return text
ConvertedResult(text, converted, tolerance) ==
    IF converted = ValueError THEN text ELSE converted \o tolerance

replacement_function(text) ==
    IF HasDegree(text) THEN text
    ELSE IF HasGDT(text) THEN text
    ELSE LET s == SplitTolerance(text)
             prec == Precision(s.base_number)
         IN  ConvertedResult(text, convert_value(s.base_number, "mm", prec),
                             s.tolerance)

(***************************************************************************)
(* group_numeric_spans(spans, gap_threshold).  A span is a record with     *)
(* text, bbox = <<x0, y0, x1, y1>>, font, size and (optionally) color.     *)
(* The loop state is the list of groups and `current`, which in the code   *)
(* is None or a reference to the last dict appended to the list: here the  *)
(* index of that group, 0 for None.                                        *)
(***************************************************************************)
GAP_THRESHOLD == 3

\* the character class [0-9\.\+\-]
NumericChars == AsciiDigits \cup {".", "+", "-"}

IsNumericPrefix(t) ==
    LET s == Strip(t)
    IN  Len(s) > 0 /\ s[1] \in NumericChars

\* is_numeric_text(t): ^[0-9\.\+\-]+$ on t.strip()
is_numeric_text(t) ==
    LET s == Strip(t)
    IN  Len(s) > 0 /\ \A i \in 1..Len(s) : s[i] \in NumericChars

SpanText(span) == IF "text" \in DOMAIN span THEN span.text ELSE <<>>

SpanColor(span) == IF "color" \in DOMAIN span THEN span.color ELSE <<0, 0, 0>>

Max(a, b) == IF a >= b THEN a ELSE b

GapMergesInclusive(gap, gap_threshold) == gap <= gap_threshold

GapMerges(gap, gap_threshold) == gap < gap_threshold

NewGroup(span, txt) ==
    [text |-> txt, bbox |-> span.bbox, font |-> span.font, size |-> span.size,
     color |-> SpanColor(span)]

MergeSpanPrepend(group, span, txt) ==
    [group EXCEPT !.text = txt \o @,
                  !.bbox = <<@[1], @[2], span.bbox[3], Max(@[4], span.bbox[4])>>]

MergeSpan(group, span, txt) ==
    [group EXCEPT !.text = @ \o txt,
                  !.bbox = <<@[1], @[2], span.bbox[3], Max(@[4], span.bbox[4])>>]

EntryState == [groups |-> <<>>, current |-> 0]

OnBlankCloses(st) == [st EXCEPT !.current = 0]

\* if not txt: continue
OnBlank(st) == st

\* one iteration of the loop over spans
GroupStep(st, span, gap_threshold) ==
    LET txt == Strip(SpanText(span))
    IN  IF txt = <<>> THEN OnBlank(st)
        ELSE IF is_numeric_text(txt)
        THEN IF /\ st.current # 0
                /\ GapMerges(span.bbox[1] - st.groups[st.current].bbox[3], gap_threshold)
             THEN [st EXCEPT !.groups[st.current] = MergeSpan(@, span, txt)]
             ELSE [groups |-> Append(st.groups, NewGroup(span, txt)),
                   current |-> Len(st.groups) + 1]
        ELSE [st EXCEPT !.current = 0]

RECURSIVE GroupLoop(_, _, _)
GroupLoop(st, spans, gap_threshold) ==
    IF spans = <<>> THEN st
    ELSE GroupLoop(GroupStep(st, Head(spans), gap_threshold), Tail(spans), gap_threshold)

group_numeric_spans(spans, gap_threshold) ==
    GroupLoop(EntryState, spans, gap_threshold).groups

(***************************************************************************)
(* process_pdf, one Group: the number pattern, the conversion and the      *)
(* replacement tuple (bbox, converted, font, size, color).                 *)
(***************************************************************************)
\* \d*\.?\d+
IsPlainNumber(s) ==
    /\ Len(s) > 0
    /\ \A i \in 1..Len(s) : s[i] \in DigitChars \cup {"."}
    /\ Cardinality({i \in 1..Len(s) : s[i] = "."}) <= 1
    /\ s[Len(s)] \in DigitChars

\* [+-]?\d*\.?\d+(?:[+-]\d*\.?\d+)? on the whole of text
IsNumberWithTolerance(text) ==
    LET body == Unsigned(text)
    IN  \/ IsPlainNumber(body)
        \/ \E k \in 1..Len(body) :
              /\ body[k] \in {"+", "-"}
              /\ IsPlainNumber(SubSeq(body, 1, k - 1))
              /\ IsPlainNumber(SubSeq(body, k + 1, Len(body)))

NumberPatternAny(text) == TRUE

\* number_pattern.match(text): ^[+-]?\d*\.?\d+(?:[+-]\d*\.?\d+)?$, where $
\* matches at the end of the text and before a line feed that ends it
NumberPatternMatch(text) ==
    \/ IsNumberWithTolerance(text)
    \/ /\ Len(text) > 0
       /\ text[Len(text)] = "U+000A"
       /\ IsNumberWithTolerance(SubSeq(text, 1, Len(text) - 1))

ProcessGroup(group) ==
    IF NumberPatternMatch(group.text)
    THEN LET converted == replacement_function(group.text)
         IN  IF converted # group.text
             THEN <<<<group.bbox, converted, group.font, group.size, group.color>>>>
             ELSE <<>>
    ELSE <<>>

(***************************************************************************)
(* Inputs of the token specification: every text over TokenChars up to     *)
(* MaxTokLen characters, and the tokens the documentation names.           *)
(***************************************************************************)
TokenChars == {"0", "1", ".", "+", "-", "x", DEG}

BoundedTokens == UNION {[1..n -> TokenChars] : n \in 0..MaxTokLen}

ExampleTokens ==
    { <<"5", "0", ".", "0">>,
      <<"1", "0", "+", "0", ".", "5">>,
      <<"2", "5", ".", "4", "0">>,
      <<"1", "2", ".", "5", ".", "6">>,
      <<"4", "x", "1", "0">>,
      <<"4", "X", "4">>,
      <<"4", "5", DEG>>,
      <<"-", "5", "-", "0", ".", "2">>,
      <<"1", ".", "5", "-", "0", ".", "1", "+", "0", ".", "2">>,
      <<"1", "+", "4", "x", "1">>,
      <<"5", "+", DEG>>,
      <<"1", "2", ".", "5", "+", "0", ".", "1">>,
      <<"5", ".">>,
      <<" ", "5">>,
      <<"U+0009", "5">>,
      <<"U+001C", "5">>,
      <<"5", "U+000A">>,
      <<"1", "U+0009", "+", "2">>,
      <<"U+0663", ".", "U+0665">>,
      <<"4", "x", "U+0663">>,
      <<"1", "e", "1">>,
      <<"1", ".", "5", "E", "1">>,
      <<"1", "_", "0">>,
      <<"1", "_", "_", "0">>,
      <<"1", "e", "4", "0", "0">>,
      <<"1", "e", "0", "0", "0", "0", "0", "0", "2">>,
      <<"i", "n", "f">>,
      <<"n", "a", "n">>,
      <<"I", "n", "f", "i", "n", "i", "t", "y">>,
      <<"-", "i", "n", "f", "+", "1">> }

Tokens == BoundedTokens \cup ExampleTokens

TokenGroup(text) ==
    [text |-> text, bbox |-> <<0, 0, 10, 10>>, font |-> "helv", size |-> 10,
     color |-> <<0, 0, 0>>]

IdleGroup == /\ lines = <<>> /\ lineNo = 0 /\ pos = 0 /\ groups = <<>>
             /\ current = 0 /\ members = <<>> /\ found = <<>>

IdleProc == /\ doc = <<>> /\ pc = "idle" /\ pageNo = 0 /\ page_dict = <<>>
            /\ blockNo = 0 /\ replacements = <<>> /\ repNo = 0 /\ log = <<>>

InitConv ==
    /\ token \in Tokens
    /\ results = <<>>
    /\ collected = [done |-> FALSE, recs |-> <<>>]
    /\ IdleGroup
    /\ IdleProc

\* replacement_function applied to the token, then to its own result
Apply ==
    /\ Len(results) < MaxApply
    /\ results' = Append(results,
                         replacement_function(IF results = <<>>
                                              THEN token
                                              ELSE results[Len(results)]))
    /\ UNCHANGED <<token, collected, groupVars, procVars>>

\* process_pdf's body for one Group whose text is the token
Collect ==
    /\ ~collected.done
    /\ collected' = [done |-> TRUE, recs |-> ProcessGroup(TokenGroup(token))]
    /\ UNCHANGED <<token, results, groupVars, procVars>>

NextConv == Apply \/ Collect

SpecConv == InitConv /\ [][NextConv]_vars

(***************************************************************************)
(* Properties of replacement_function (SpecConv).  The definitions below   *)
(* restate the documented behaviour on the token itself; none of them is   *)
(* used by the model above.                                                *)
(***************************************************************************)
FirstResult == results[1]

DocDegree(t) == \E i \in 1..Len(t) : t[i] = DEG

DocGDT(t) ==
    \E i \in 1..(Len(t) - 2) :
        t[i] \in DigitChars /\ t[i + 1] \in {"x", "X"} /\ t[i + 2] \in DigitChars

DocEligible(t) == ~DocDegree(t) /\ ~DocGDT(t)

\* the split point: the first '+' if there is one, else the first '-', else the end
DocDelimiterAt(t) ==
    IF \E i \in 1..Len(t) : t[i] = "+"
    THEN CHOOSE i \in 1..Len(t) : t[i] = "+" /\ \A j \in 1..(i - 1) : t[j] # "+"
    ELSE IF \E i \in 1..Len(t) : t[i] = "-"
    THEN CHOOSE i \in 1..Len(t) : t[i] = "-" /\ \A j \in 1..(i - 1) : t[j] # "-"
    ELSE Len(t) + 1

DocBase(t) == SubSeq(t, 1, DocDelimiterAt(t) - 1)

DocSuffix(t) == SubSeq(t, DocDelimiterAt(t), Len(t))

DocPrecision(base) ==
    IF \E i \in 1..Len(base) : base[i] = "."
    THEN Len(base) - (CHOOSE i \in 1..Len(base) :
                          base[i] = "." /\ \A j \in 1..(i - 1) : base[j] # ".")
    ELSE 4

\* the part of the result that precedes the tolerance suffix
ConvertedPart(t, r) == SubSeq(r, 1, Len(r) - Len(DocSuffix(t)))

\* the fractional digits of a decimal text: the characters after its '.'
FractionDigits(d) ==
    IF \E i \in 1..Len(d) : d[i] = "."
    THEN Len(d) - (CHOOSE i \in 1..Len(d) : d[i] = ".")
    ELSE 0

Abs(n) == IF n < 0 THEN 0 - n ELSE n

\* the number written by a short run of digits
RECURSIVE DigitsValue(_)
DigitsValue(s) ==
    IF Len(s) = 0 THEN 0
    ELSE 10 * DigitsValue(SubSeq(s, 1, Len(s) - 1)) + DigitVal(s[Len(s)])

\* d is the decimal nearest to base / 25.4 among those with p fractional digits:
\* |d * 10^p * 254 - base * 10^(p+1)| <= 127; a base that reads as an infinity
\* or as nan stays one when divided, and prints as inf, -inf or nan
IsNearestInch(d, base, p) ==
    LET v == ParseFloat(base)
        body == IF Len(d) > 0 /\ d[1] = "-" THEN Tail(d) ELSE d
        q == DigitsValue(SelectSeq(body, LAMBDA c : c \in AsciiDigits))
    IN  IF v.kind = "nan" THEN d = <<"n", "a", "n">>
        ELSE IF v.kind = "inf"
        THEN d = (IF v.neg THEN <<"-">> ELSE <<>>) \o <<"i", "n", "f">>
        ELSE /\ \A i \in 1..Len(body) : body[i] \in AsciiDigits \cup {"."}
             /\ (Len(d) > 0 /\ d[1] = "-") = v.neg
             /\ p + 1 >= v.scale
             /\ Abs(254 * q - BigValue(v.mant) * Pow10(p + 1 - v.scale)) <= 127

\* C5: for every token that passes the eligibility filters and whose base
\* number parses, the result is base / 25.4 formatted to the computed
\* precision, followed by the token's text from the split delimiter onward,
\* unconverted; "10+0.5" yields "0.3937+0.5".
C5_ConvertedThenTolerance ==
    Len(results) >= 1 =>
        /\ (DocEligible(token) /\ IsFloatLiteral(DocBase(token))) =>
              /\ Len(FirstResult) >= Len(DocSuffix(token))
              /\ SubSeq(FirstResult, Len(FirstResult) - Len(DocSuffix(token)) + 1,
                        Len(FirstResult)) = DocSuffix(token)
              /\ IsNearestInch(ConvertedPart(token, FirstResult), DocBase(token),
                               DocPrecision(DocBase(token)))
        /\ token = <<"1", "0", "+", "0", ".", "5">> =>
              FirstResult = <<"0", ".", "3", "9", "3", "7", "+", "0", ".", "5">>

C5_Witness ==
    /\ token = <<"1", "0", "+", "0", ".", "5">>
    /\ Len(results) >= 1
    /\ FirstResult = <<"0", ".", "3", "9", "3", "7", "+", "0", ".", "5">>

\* the base reads as a finite number: neither an infinity nor nan
DocFinite(base) == ParseFloat(base).kind = "finite"

\* C6 as stated: the converted base value has as many fractional digits as
\* the base number has characters after its first decimal point, and 4 when
\* the base has no decimal point; "25.40" converts to "1.00".
C6_PrecisionFollowsBase ==
    Len(results) >= 1 =>
        /\ (DocEligible(token) /\ IsFloatLiteral(DocBase(token))) =>
              /\ Len(FirstResult) >= Len(DocSuffix(token))
              /\ FractionDigits(ConvertedPart(token, FirstResult))
                    = DocPrecision(DocBase(token))
              /\ (DocPrecision(DocBase(token)) = 0) =>
                    ~Contains(ConvertedPart(token, FirstResult), ".")
        /\ token = <<"2", "5", ".", "4", "0">> => FirstResult = <<"1", ".", "0", "0">>

\* C6 (amended): when the base number reads as a finite number, the
\* converted base value has as many fractional digits as the base has
\* characters after its first decimal point, and 4 when the base has no
\* decimal point; "25.40" converts to "1.00".  A base that reads as an
\* infinity or as nan converts to "inf", "-inf" or "nan", which has no
\* fractional digit: "inf" yields "inf".
C6_PrecisionFollowsFiniteBase ==
    Len(results) >= 1 =>
        /\ (DocEligible(token) /\ IsFloatLiteral(DocBase(token))) =>
              /\ Len(FirstResult) >= Len(DocSuffix(token))
              /\ DocFinite(DocBase(token)) =>
                    /\ FractionDigits(ConvertedPart(token, FirstResult))
                          = DocPrecision(DocBase(token))
                    /\ (DocPrecision(DocBase(token)) = 0) =>
                          ~Contains(ConvertedPart(token, FirstResult), ".")
              /\ ~DocFinite(DocBase(token)) =>
                    ConvertedPart(token, FirstResult)
                        \in {<<"i", "n", "f">>, <<"-", "i", "n", "f">>, <<"n", "a", "n">>}
        /\ token = <<"2", "5", ".", "4", "0">> => FirstResult = <<"1", ".", "0", "0">>
        /\ token = <<"i", "n", "f">> => FirstResult = <<"i", "n", "f">>

C6_Witness ==
    /\ token = <<"2", "5", ".", "4", "0">>
    /\ Len(results) >= 1
    /\ FirstResult = <<"1", ".", "0", "0">>

\* C7: a token that contains a degree symbol, or a digit, 'x' or 'X', digit
\* in a row, is returned unchanged, also when its base number would parse;
\* no replacement record is produced for it, and applying the function to
\* the result returns it unchanged again.
C7_IneligibleUnchanged ==
    (DocDegree(token) \/ DocGDT(token)) =>
        /\ \A i \in 1..Len(results) : results[i] = token
        /\ collected.recs = <<>>

C7_Witness ==
    /\ token = <<"1", "+", "4", "x", "1">>
    /\ Len(results) = 2
    /\ results[2] = token
    /\ collected.done /\ collected.recs = <<>>

\* C8: a token whose base number (the part before the split delimiter) is
\* not a floating-point literal, such as an empty base or "12.5.6", is
\* returned exactly as it was, and no replacement is recorded for it.
C8_ParseFailureUnchanged ==
    ~IsFloatLiteral(DocBase(token)) =>
        /\ \A i \in 1..Len(results) : results[i] = token
        /\ collected.recs = <<>>

C8_Witness ==
    /\ token = <<"1", "2", ".", "5", ".", "6">>
    /\ Len(results) >= 1
    /\ FirstResult = token
    /\ collected.done /\ collected.recs = <<>>

\* the places of character c in text t
DocPlaces(t, c) == {i \in 1..Len(t) : t[i] = c}

\* the text of t before the first c
DocBefore(t, c) ==
    LET first == CHOOSE i \in DocPlaces(t, c) : \A j \in DocPlaces(t, c) : i <= j
    IN  SubSeq(t, 1, first - 1)

\* C16: for every token given to replacement_function, the base number and
\* the tolerance of its split concatenate to the token; with a '+' in the
\* token the base is the text before the first '+', also when a '-' comes
\* earlier; with a '-' and no '+' it is the text before the first '-'; with
\* neither, the base is the token and the tolerance is empty.
C16_SplitLossless ==
    Len(results) >= 1 =>
        LET s == SplitTolerance(token)
        IN  /\ s.base_number \o s.tolerance = token
            /\ DocPlaces(token, "+") # {} =>
                  /\ s.base_number = DocBefore(token, "+")
                  /\ s.tolerance[1] = "+"
            /\ (DocPlaces(token, "+") = {} /\ DocPlaces(token, "-") # {}) =>
                  /\ s.base_number = DocBefore(token, "-")
                  /\ s.tolerance[1] = "-"
            /\ (DocPlaces(token, "+") = {} /\ DocPlaces(token, "-") = {}) =>
                  /\ s.base_number = token
                  /\ s.tolerance = <<>>
            /\ (DocEligible(token) /\ IsFloatLiteral(s.base_number)) =>
                  /\ Len(FirstResult) >= Len(s.tolerance)
                  /\ SubSeq(FirstResult, Len(FirstResult) - Len(s.tolerance) + 1,
                            Len(FirstResult)) = s.tolerance

\* "-1+1": the '-' comes first, the split is at the '+'
C16_Witness ==
    /\ token = <<"-", "1", "+", "1">>
    /\ Len(results) = 1
    /\ SplitTolerance(token).base_number = <<"-", "1">>
    /\ SplitTolerance(token).tolerance = <<"+", "1">>
    /\ FirstResult = <<"-", "0", ".", "0", "3", "9", "4", "+", "1">>

DocSigned(t) == t # <<>> /\ t[1] \in {"+", "-"}

\* C17 as stated: a token that begins with '+' or '-' is returned unchanged
\* and produces no replacement record.
C17_SignedUnchanged ==
    DocSigned(token) =>
        /\ \A i \in 1..Len(results) : results[i] = token
        /\ collected.recs = <<>>

\* C17 (amended): a token that begins with '+', or that begins with '-' and
\* contains no '+', is returned unchanged and produces no replacement
\* record; a token that begins with '-' and contains a '+' is split at the
\* '+', so its base keeps the sign: "-1+1" yields "-0.0394+1" and a record.
C17_SignedWithoutPlusUnchanged ==
    /\ (DocSigned(token) /\ (token[1] = "+" \/ DocPlaces(token, "+") = {})) =>
          /\ \A i \in 1..Len(results) : results[i] = token
          /\ collected.recs = <<>>
    /\ token = <<"-", "1", "+", "1">> =>
          /\ Len(results) >= 1 =>
                FirstResult = <<"-", "0", ".", "0", "3", "9", "4", "+", "1">>
          /\ collected.done => Len(collected.recs) = 1

C17_Witness ==
    /\ token = <<"-", "5", "-", "0", ".", "2">>
    /\ results = <<token, token>>
    /\ collected.done
    /\ collected.recs = <<>>

(***************************************************************************)
(* Inputs of the grouping specification: a line of up to MaxSpans spans    *)
(* laid out left to right, each with a text, a horizontal gap to the span  *)
(* before it and one of two vertical extents (with its font and size);     *)
(* and, optionally, a second line that starts again at the left margin.    *)
(***************************************************************************)
SpanTexts ==
    { <<"1">>, <<"U+0009", ".", "5", "U+00A0">>, <<"1", "x">>, <<"U+2003">> }

SpanGaps == {0, 3}

SpanShapes ==
    { [y0 |-> 1, y1 |-> 5, font |-> "Arial", size |-> 10],
      [y0 |-> 0, y1 |-> 6, font |-> "Times", size |-> 12] }

SpanWidth(text) == Len(text)

SpanChoices == [text : SpanTexts, gap : SpanGaps, shape : SpanShapes]

RECURSIVE Layout(_, _)
Layout(choices, x) ==
    IF choices = <<>> THEN <<>>
    ELSE LET c == Head(choices)
             x0 == x + c.gap
             x1 == x0 + SpanWidth(c.text)
         IN  <<[text |-> c.text, bbox |-> <<x0, c.shape.y0, x1, c.shape.y1>>,
                font |-> c.shape.font, size |-> c.shape.size, color |-> <<0, 0, 0>>]>>
             \o Layout(Tail(choices), x1)

GeneratedLines ==
    {Layout(cs, 0) : cs \in UNION {[1..n -> SpanChoices] : n \in 0..MaxSpans}}

SecondLine ==
    <<[text |-> <<"2">>, bbox |-> <<0, 11, 1, 15>>, font |-> "Arial", size |-> 10]>>

GroupInputs == {<<l>> : l \in GeneratedLines} \cup {<<l, SecondLine>> : l \in GeneratedLines}

IdleConv == /\ token = <<>> /\ results = <<>>
            /\ collected = [done |-> FALSE, recs |-> <<>>]

InitGroup ==
    /\ lines \in GroupInputs
    /\ lineNo = 0
    /\ pos = -1
    /\ groups = <<>>
    /\ current = 0
    /\ members = <<>>
    /\ found = <<>>
    /\ IdleConv
    /\ IdleProc

\* process_pdf calls group_numeric_spans on the next line: the loop state is fresh
EnterLine ==
    /\ pos = -1
    /\ lineNo < Len(lines)
    /\ lineNo' = lineNo + 1
    /\ pos' = 0
    /\ groups' = EntryState.groups
    /\ current' = EntryState.current
    /\ members' = <<>>
    /\ UNCHANGED <<lines, found, convVars, procVars>>

\* one iteration of the loop; members records which spans each group was built from
StepSpan ==
    /\ pos >= 0
    /\ pos < Len(lines[lineNo])
    /\ LET st == GroupStep([groups |-> groups, current |-> current],
                           lines[lineNo][pos + 1], GAP_THRESHOLD)
       IN  /\ groups' = st.groups
           /\ current' = st.current
           /\ members' = IF Len(st.groups) > Len(groups)
                         THEN Append(members, <<<<lineNo, pos + 1>>>>)
                         ELSE IF st.groups # groups
                         THEN [members EXCEPT ![current] = Append(@, <<lineNo, pos + 1>>)]
                         ELSE members
    /\ pos' = pos + 1
    /\ UNCHANGED <<lines, lineNo, found, convVars, procVars>>

\* return groups: process_pdf receives the line's groups
ReturnGroups ==
    /\ pos >= 0
    /\ pos = Len(lines[lineNo])
    /\ found' = found \o [i \in 1..Len(groups) |->
                             [line |-> lineNo, group |-> groups[i], members |-> members[i]]]
    /\ pos' = -1
    /\ UNCHANGED <<lines, lineNo, groups, current, members, convVars, procVars>>

NextGroup == EnterLine \/ StepSpan \/ ReturnGroups

SpecGroup == InitGroup /\ [][NextGroup]_vars

(***************************************************************************)
(* Properties of group_numeric_spans (SpecGroup).  members[i] lists, in    *)
(* order, the <<line, index>> of the spans that built groups[i].           *)
(***************************************************************************)
SpanAt(m) == lines[m[1]][m[2]]

DocTrimmed(span) == Strip(span.text)

DocNumericSpan(span) ==
    /\ DocTrimmed(span) # <<>>
    /\ \A i \in 1..Len(DocTrimmed(span)) :
          DocTrimmed(span)[i] \in AsciiDigits \cup {".", "+", "-"}

DocBlankSpan(span) == DocTrimmed(span) = <<>>

RECURSIVE ConcatTrimmed(_)
ConcatTrimmed(ms) ==
    IF ms = <<>> THEN <<>> ELSE DocTrimmed(SpanAt(Head(ms))) \o ConcatTrimmed(Tail(ms))

RectContains(outer, inner) ==
    /\ outer[1] <= inner[1]
    /\ outer[2] <= inner[2]
    /\ outer[3] >= inner[3]
    /\ outer[4] >= inner[4]

\* C1: a Group's text is the concatenation, in order, of the trimmed texts
\* of the spans merged into it, and its bounding box is the union of their
\* bounding boxes: it contains the rectangle of every member span.
C1_GroupBoxIsUnion ==
    \A i \in 1..Len(groups) :
        /\ groups[i].text = ConcatTrimmed(members[i])
        /\ \A k \in 1..Len(members[i]) :
              RectContains(groups[i].bbox, SpanAt(members[i][k]).bbox)

\* the part of C1 that the code keeps: the text, the left and top edges of the
\* first member, the right edge of the last member, the largest bottom edge
C1_TextAndEdges ==
    \A i \in 1..Len(groups) :
        /\ groups[i].text = ConcatTrimmed(members[i])
        /\ groups[i].bbox[1] = SpanAt(members[i][1]).bbox[1]
        /\ groups[i].bbox[2] = SpanAt(members[i][1]).bbox[2]
        /\ groups[i].bbox[3] = SpanAt(members[i][Len(members[i])]).bbox[3]
        /\ \A k \in 1..Len(members[i]) : groups[i].bbox[4] >= SpanAt(members[i][k]).bbox[4]

\* before span p of the line is read there is no open Group: no numeric span
\* precedes it, or a non-numeric span lies between the last numeric span and it
DocNoOpenGroup(line, p) ==
    LET numeric == {j \in 1..(p - 1) : DocNumericSpan(line[j])}
    IN  \/ numeric = {}
        \/ \E k \in 1..(p - 1) :
              /\ \A j \in numeric : j < k
              /\ ~DocNumericSpan(line[k])
              /\ ~DocBlankSpan(line[k])

C2_StepRule ==
    (pos >= 0 /\ pos' = pos + 1 /\ DocNumericSpan(lines[lineNo][pos'])) =>
        LET span == lines[lineNo][pos']
            n == Len(groups)
            startsNew == /\ Len(groups') = n + 1
                         /\ SubSeq(groups', 1, n) = groups
                         /\ members'[n + 1] = <<<<lineNo, pos'>>>>
            merged == /\ Len(groups') = n
                      /\ n > 0
                      /\ members'[n] = Append(members[n], <<lineNo, pos'>>)
        IN  /\ startsNew \/ merged
            /\ startsNew <=> (\/ DocNoOpenGroup(lines[lineNo], pos')
                              \/ span.bbox[1] - groups[n].bbox[3] >= 3)

C2_NoCrossing ==
    LET built == {[line |-> lineNo, members |-> members[i]] : i \in 1..Len(members)}
                 \cup {[line |-> found[i].line, members |-> found[i].members] :
                          i \in 1..Len(found)}
    IN  \A b \in built :
            /\ Len(b.members) >= 1
            /\ \A k \in 1..Len(b.members) : b.members[k][1] = b.line
            /\ \A k \in 1..(Len(b.members) - 1) :
                  /\ b.members[k][2] < b.members[k + 1][2]
                  /\ \A j \in (b.members[k][2] + 1)..(b.members[k + 1][2] - 1) :
                        DocBlankSpan(lines[b.line][j])

\* C2: a numeric span starts a new Group exactly when no Group is open (it is
\* the first numeric span of its line, or a non-numeric span was read since
\* the last numeric one) or its gap to the open Group's right edge is >= 3.0,
\* and otherwise joins the open Group; no Group holds spans of two lines or
\* spans separated by a non-numeric span.
C2_NewGroupRule == [][C2_StepRule]_vars /\ []C2_NoCrossing

\* a numeric span exactly 3.0 to the right of the open Group started its own
\* Group, and the second line's span did not join a Group of the first line
C2_Witness ==
    /\ Len(lines) = 2
    /\ Len(lines[1]) >= 2
    /\ DocNumericSpan(lines[1][1])
    /\ DocNumericSpan(lines[1][2])
    /\ lines[1][2].bbox[1] - lines[1][1].bbox[3] = 3
    /\ Len(found) >= 3
    /\ found[1].members = <<<<1, 1>>>>
    /\ found[2].members[1] = <<1, 2>>
    /\ found[Len(found)].members = <<<<2, 1>>>>

(***************************************************************************)
(* process_pdf(input_file, output_file).  A document is a sequence of      *)
(* pages; page.get_text("dict") gives the page's blocks, a block with a    *)
(* "lines" entry holding lines of spans.  log is the history of the calls  *)
(* made on the logging setup, the document and its pages, in order.        *)
(***************************************************************************)
Span(text, x0, x1) ==
    [text |-> text, bbox |-> <<x0, 100, x1, 112>>, font |-> "Arial", size |-> 10,
     color |-> <<0, 0, 0>>]

ImageBlock == [image |-> "png"]

TextBlock(block_lines) == [lines |-> [i \in 1..Len(block_lines) |-> [spans |-> block_lines[i]]]]

Line50 == <<Span(<<"5", "0", ".", "0">>, 10, 30)>>
LineBad == <<Span(<<"1", "2", ".", "5", ".", "6">>, 10, 40)>>
LineDot == <<Span(<<"5", ".">>, 10, 20)>>
LineTol == <<Span(<<"1", "0">>, 10, 20), Span(<<"U+0009">>, 20, 21),
             Span(<<"+", "0", ".", "5">>, 21, 40)>>
LineTwo == <<Span(<<"2", "5", ".", "4", "0">>, 10, 35), Span(<<"1">>, 40, 45)>>
LineText == <<Span(<<"W", "i", "d", "t", "h">>, 10, 35), Span(<<"4", "x", "1", "0">>, 36, 56),
              Span(<<"4", "5", DEG>>, 60, 75)>>
LineNeg == <<Span(<<"-", "5">>, 10, 20), Span(<<"+", "1">>, 22, 32)>>
LineSigned == <<Span(<<"+", "5">>, 10, 20), Span(<<"U+00A0">>, 20, 22), Span(<<"-", "5">>, 30, 40)>>

SamplePages ==
    { <<>>,
      <<ImageBlock>>,
      <<TextBlock(<<Line50>>)>>,
      <<TextBlock(<<LineText>>)>>,
      <<TextBlock(<<LineBad, LineSigned>>)>>,
      <<TextBlock(<<LineDot>>)>>,
      <<ImageBlock, TextBlock(<<LineTol>>)>>,
      <<TextBlock(<<LineTwo>>), TextBlock(<<LineNeg>>)>>,
      <<TextBlock(<<Line50, LineText, LineDot>>)>> }

Documents == UNION {[1..n -> SamplePages] : n \in 0..MaxPages}

Event(op, page, rec, args, ok) == [op |-> op, page |-> page, rec |-> rec, args |-> args, ok |-> ok]

RECURSIVE GroupsReplacements(_)
GroupsReplacements(gs) ==
    IF gs = <<>> THEN <<>> ELSE ProcessGroup(Head(gs)) \o GroupsReplacements(Tail(gs))

\* for line in block["lines"]: group the line's spans, convert each group
RECURSIVE LinesReplacements(_)
LinesReplacements(ls) ==
    IF ls = <<>> THEN <<>>
    ELSE GroupsReplacements(group_numeric_spans(Head(ls).spans, GAP_THRESHOLD))
         \o LinesReplacements(Tail(ls))

BlockReplacements(block) ==
    IF "lines" \notin DOMAIN block THEN <<>> ELSE LinesReplacements(block.lines)

ScanFinishedEarly(n, blocks) == n >= 1 \/ n = Len(blocks)

\* the loop over page_dict["blocks"] has run to its end
ScanFinished(n, blocks) == n = Len(blocks)

WHITE == <<1, 1, 1>>

FallbackArgsSameFont(rep) == <<rep[1], rep[2], rep[3], rep[4], rep[5]>>

\* the arguments of the first insert_textbox call and of the one in the handler
InsertArgs(rep) == <<rep[1], rep[2], rep[3], rep[4], rep[5]>>

FallbackArgs(rep) == <<rep[1], rep[2], "helv", rep[4], rep[5]>>

FallbackOutcomeSwallow(ok) == "insert"

\* the handler's insert_textbox is not guarded: its exception leaves process_pdf
FallbackOutcome(ok) == IF ok THEN "insert" ELSE "crashed"

MorePagesSkipLast(n, d) == n < Len(d) - 1

\* for page in doc: another page is left to iterate over
MorePages(n, d) == n < Len(d)

AfterScanAlwaysRedact(reps) == "redact"

\* if replacements: the erase and reinsert phases run only for a non-empty list
AfterScan(reps) == IF reps # <<>> THEN "redact" ELSE "page"

InitProc ==
    /\ doc \in Documents
    /\ pc = "start"
    /\ pageNo = 0
    /\ page_dict = <<>>
    /\ blockNo = 0
    /\ replacements = <<>>
    /\ repNo = 0
    /\ log = <<>>
    /\ IdleConv
    /\ IdleGroup

\* setup_logging(): creating the log file may raise
SetupLogging ==
    /\ pc = "start"
    /\ \E ok \in BOOLEAN :
          /\ log' = Append(log, Event("setup_logging", 0, 0, <<>>, ok))
          /\ pc' = IF ok THEN "open" ELSE "crashed"
    /\ UNCHANGED <<doc, pageNo, page_dict, blockNo, replacements, repNo, convVars, groupVars>>

\* doc = fitz.open(input_file): may raise
OpenDocument ==
    /\ pc = "open"
    /\ \E ok \in BOOLEAN :
          /\ log' = Append(log, Event("open", 0, 0, <<>>, ok))
          /\ pc' = IF ok THEN "page" ELSE "crashed"
    /\ UNCHANGED <<doc, pageNo, page_dict, blockNo, replacements, repNo, convVars, groupVars>>

\* for page in doc: replacements = []; page_dict = page.get_text("dict")
BeginPage ==
    /\ pc = "page"
    /\ MorePages(pageNo, doc)
    /\ pageNo' = pageNo + 1
    /\ replacements' = <<>>
    /\ page_dict' = doc[pageNo + 1]
    /\ blockNo' = 0
    /\ repNo' = 0
    /\ log' = Append(log, Event("get_text", pageNo + 1, 0, <<>>, TRUE))
    /\ pc' = "scan"
    /\ UNCHANGED <<doc, convVars, groupVars>>

\* one block of the page: skipped without "lines", else its lines are grouped and converted
ScanBlock ==
    /\ pc = "scan"
    /\ ~ScanFinished(blockNo, page_dict)
    /\ blockNo < Len(page_dict)
    /\ blockNo' = blockNo + 1
    /\ replacements' = replacements \o BlockReplacements(page_dict[blockNo + 1])
    /\ log' = Append(log, Event("scan", pageNo, blockNo + 1, <<>>, TRUE))
    /\ UNCHANGED <<doc, pc, pageNo, page_dict, repNo, convVars, groupVars>>

\* if replacements: ... else the page is left as it is
EndScan ==
    /\ pc = "scan"
    /\ ScanFinished(blockNo, page_dict)
    /\ pc' = AfterScan(replacements)
    /\ repNo' = 0
    /\ UNCHANGED <<doc, pageNo, page_dict, blockNo, replacements, log, convVars, groupVars>>

\* page.add_redact_annot(rect, fill=(1, 1, 1)) for the next record
AddRedactAnnot ==
    /\ pc = "redact"
    /\ repNo < Len(replacements)
    /\ repNo' = repNo + 1
    /\ log' = Append(log, Event("add_redact_annot", pageNo, repNo + 1,
                                <<replacements[repNo + 1][1], WHITE>>, TRUE))
    /\ UNCHANGED <<doc, pc, pageNo, page_dict, blockNo, replacements, convVars, groupVars>>

\* page.apply_redactions()
ApplyRedactions ==
    /\ pc = "redact"
    /\ repNo = Len(replacements)
    /\ repNo' = 0
    /\ pc' = "insert"
    /\ log' = Append(log, Event("apply_redactions", pageNo, 0, <<>>, TRUE))
    /\ UNCHANGED <<doc, pageNo, page_dict, blockNo, replacements, convVars, groupVars>>

\* page.insert_textbox(rect, text, fontname=rep[2], ...): may raise
InsertTextbox ==
    /\ pc = "insert"
    /\ repNo < Len(replacements)
    /\ \E ok \in BOOLEAN :
          /\ log' = Append(log, Event("insert_textbox", pageNo, repNo + 1,
                                      InsertArgs(replacements[repNo + 1]), ok))
          /\ pc' = IF ok THEN "insert" ELSE "fallback"
          /\ repNo' = IF ok THEN repNo + 1 ELSE repNo
    /\ UNCHANGED <<doc, pageNo, page_dict, blockNo, replacements, convVars, groupVars>>

\* except Exception: page.insert_textbox(rect, text, fontname="helv", ...): may raise
InsertFallback ==
    /\ pc = "fallback"
    /\ \E ok \in BOOLEAN :
          /\ log' = Append(log, Event("insert_textbox", pageNo, repNo + 1,
                                      FallbackArgs(replacements[repNo + 1]), ok))
          /\ pc' = FallbackOutcome(ok)
          /\ repNo' = IF ok THEN repNo + 1 ELSE repNo
    /\ UNCHANGED <<doc, pageNo, page_dict, blockNo, replacements, convVars, groupVars>>

\* the reinsertion loop has run to its end: the page is done
EndInsert ==
    /\ pc = "insert"
    /\ repNo = Len(replacements)
    /\ pc' = "page"
    /\ UNCHANGED <<doc, pageNo, page_dict, blockNo, replacements, repNo, log, convVars, groupVars>>

\* doc.save(output_file), after the last page: may raise
SaveDocument ==
    /\ pc = "page"
    /\ ~MorePages(pageNo, doc)
    /\ \E ok \in BOOLEAN :
          /\ log' = Append(log, Event("save", 0, 0, <<>>, ok))
          /\ pc' = IF ok THEN "startfile" ELSE "crashed"
    /\ UNCHANGED <<doc, pageNo, page_dict, blockNo, replacements, repNo, convVars, groupVars>>

\* os.startfile(output_file): a failure is caught and logged
StartFile ==
    /\ pc = "startfile"
    /\ \E ok \in BOOLEAN :
          /\ log' = Append(log, Event("startfile", 0, 0, <<>>, ok))
          /\ pc' = "done"
    /\ UNCHANGED <<doc, pageNo, page_dict, blockNo, replacements, repNo, convVars, groupVars>>

Next ==
    \/ SetupLogging
    \/ OpenDocument
    \/ BeginPage
    \/ ScanBlock
    \/ EndScan
    \/ AddRedactAnnot
    \/ ApplyRedactions
    \/ InsertTextbox
    \/ InsertFallback
    \/ EndInsert
    \/ SaveDocument
    \/ StartFile

Spec == InitProc /\ [][Next]_vars

(***************************************************************************)
(* Properties of process_pdf (Spec).                                       *)
(***************************************************************************)
RECURSIVE DocLineGroups(_)
DocLineGroups(ls) ==
    IF ls = <<>> THEN <<>>
    ELSE group_numeric_spans(Head(ls).spans, GAP_THRESHOLD) \o DocLineGroups(Tail(ls))

\* the Groups of the blocks given, in reading order
RECURSIVE DocGroups(_)
DocGroups(blocks) ==
    IF blocks = <<>> THEN <<>>
    ELSE (IF "lines" \in DOMAIN Head(blocks) THEN DocLineGroups(Head(blocks).lines) ELSE <<>>)
         \o DocGroups(Tail(blocks))

\* the Groups found so far on the page being processed
ScannedGroups == DocGroups(SubSeq(page_dict, 1, blockNo))

DocRecord(g) == <<g.bbox, replacement_function(g.text), g.font, g.size, g.color>>

DocRecords(gs) == [i \in 1..Len(gs) |-> DocRecord(gs[i])]

DocChanged(g) == replacement_function(g.text) # g.text

\* a number: digits with at most one '.', the last character a digit
DocNumber(s) ==
    /\ s # <<>>
    /\ s[Len(s)] \in DigitChars
    /\ \A i \in 1..Len(s) : s[i] \in DigitChars \cup {"."}
    /\ \A i, j \in 1..Len(s) : (s[i] = "." /\ s[j] = ".") => i = j

\* an optional sign, a number and, optionally, one signed number after it
DocNumberPattern(t) ==
    LET u == IF t # <<>> /\ t[1] \in {"+", "-"} THEN Tail(t) ELSE t
    IN  \/ DocNumber(u)
        \/ \E k \in 2..(Len(u) - 1) :
              /\ u[k] \in {"+", "-"}
              /\ DocNumber(SubSeq(u, 1, k - 1))
              /\ DocNumber(SubSeq(u, k + 1, Len(u)))

\* C3 as stated: the records of a page are those of exactly the Groups whose
\* converted text differs from their text.
C3_RecordIffChanged ==
    replacements = DocRecords(SelectSeq(ScannedGroups, DocChanged))

DocMatchedAndChanged(g) == DocNumberPattern(g.text) /\ DocChanged(g)

\* C3 (amended): the records of a page are those of exactly the Groups whose
\* text matches the number pattern of process_pdf and whose converted text
\* differs from their text, in reading order.
C3_RecordIffMatchedAndChanged ==
    replacements = DocRecords(SelectSeq(ScannedGroups, DocMatchedAndChanged))

C3_Witness ==
    /\ pc = "redact"
    /\ Len(ScannedGroups) = 2
    /\ ScannedGroups[1].text = <<"5", "0", ".", "0">>
    /\ ScannedGroups[2].text = <<"5", ".">>
    /\ Len(replacements) = 1

OnlyGroupIs50 ==
    /\ pageNo >= 1
    /\ blockNo = Len(page_dict)
    /\ Len(DocGroups(page_dict)) = 1
    /\ DocGroups(page_dict)[1].text = <<"5", "0", ".", "0">>

\* C4 as stated: a page whose only Group is "50.0" yields exactly one
\* replacement record, with converted text "1.9685".
C4_Page50Gives19685 ==
    OnlyGroupIs50 =>
        /\ Len(replacements) = 1
        /\ replacements[1][2] = <<"1", ".", "9", "6", "8", "5">>

\* C4 (amended): a page whose only Group is "50.0" yields exactly one
\* replacement record, with converted text "2.0".
C4_Page50Gives20 ==
    OnlyGroupIs50 =>
        /\ Len(replacements) = 1
        /\ replacements[1][2] = <<"2", ".", "0">>

C4_Witness ==
    /\ OnlyGroupIs50
    /\ pc = "redact"
    /\ replacements[1][2] = <<"2", ".", "0">>

LogAt(op, page) == {i \in 1..Len(log) : log[i].op = op /\ log[i].page = page}

\* C9: on every page, the extraction and the scan of all its blocks precede
\* the first redaction mark and never follow one; every record's rectangle is
\* marked before the commit; the commit happens once on a page that has
\* records and never on another; no text is inserted before the commit.
C9_PhasesInOrder ==
    \A p \in 1..pageNo :
        LET reads == LogAt("get_text", p) \cup LogAt("scan", p)
            marks == LogAt("add_redact_annot", p)
            applies == LogAt("apply_redactions", p)
            inserts == LogAt("insert_textbox", p)
        IN  /\ \A m \in marks : \A r \in reads : r < m
            /\ marks # {} =>
                  /\ Cardinality(LogAt("get_text", p)) = 1
                  /\ {log[i].rec : i \in LogAt("scan", p)} = 1..Len(doc[p])
            /\ Cardinality(applies) <= 1
            /\ \A a \in applies : \A m \in marks : m < a
            /\ \A i \in inserts : \E a \in applies : a < i
            /\ applies # {} => marks # {}
            /\ (marks # {} /\ ~(p = pageNo /\ pc = "redact")) => applies # {}
            /\ (p = pageNo /\ applies # {}) =>
                  /\ Cardinality(marks) = Len(replacements)
                  /\ \A k \in 1..Len(replacements) :
                        \E m \in marks : /\ log[m].rec = k
                                         /\ log[m].args = <<replacements[k][1], <<1, 1, 1>>>>

C9_Witness ==
    /\ pc = "insert"
    /\ pageNo = 2
    /\ Len(replacements) = 3
    /\ repNo = 3
    /\ Cardinality(LogAt("apply_redactions", 1)) = 1

Attempts(p, k) == {i \in LogAt("insert_textbox", p) : log[i].rec = k}

MinOf(S) == CHOOSE x \in S : \A y \in S : x <= y

MaxOf(S) == CHOOSE x \in S : \A y \in S : x >= y

\* C10: a record is first inserted with its own font; if that call fails,
\* exactly one more call is made, with the fallback font and the same
\* rectangle, text, size and color; no record gets more than two calls; a
\* failure of the fallback call ends process_pdf, nothing is called after it.
C10_FallbackOnce ==
    \A p \in 1..pageNo :
        \A k \in {log[i].rec : i \in LogAt("insert_textbox", p)} :
            LET att == Attempts(p, k)
                first == log[MinOf(att)]
                second == log[MaxOf(att)]
            IN  /\ Cardinality(att) <= 2
                /\ p = pageNo =>
                      first.args = <<replacements[k][1], replacements[k][2], replacements[k][3],
                                     replacements[k][4], replacements[k][5]>>
                /\ first.ok => Cardinality(att) = 1
                /\ (~first.ok /\ ~(p = pageNo /\ pc = "fallback")) => Cardinality(att) = 2
                /\ Cardinality(att) = 2 =>
                      /\ ~first.ok
                      /\ MaxOf(att) = MinOf(att) + 1
                      /\ second.args = <<first.args[1], first.args[2], "helv",
                                         first.args[4], first.args[5]>>
                      /\ ~second.ok => /\ pc = "crashed"
                                       /\ MaxOf(att) = Len(log)

C10_Witness ==
    /\ pc = "crashed"
    /\ pageNo = 1
    /\ Len(replacements) = 3
    /\ Cardinality(Attempts(1, 1)) = 2
    /\ log[MaxOf(Attempts(1, 1))].ok
    /\ Cardinality(Attempts(1, 2)) = 2
    /\ ~log[Len(log)].ok
    /\ log[Len(log)].args[3] = "helv"

\* the records the whole of page p yields
DocPageRecords(p) == DocRecords(SelectSeq(DocGroups(doc[p]), DocMatchedAndChanged))

\* a second insertion attempt: the call right after a failed one for the same record
DocSecondAttempt(i) ==
    /\ i > 1
    /\ log[i].op = "insert_textbox"
    /\ log[i - 1].op = "insert_textbox"
    /\ log[i - 1].page = log[i].page
    /\ log[i - 1].rec = log[i].rec
    /\ ~log[i - 1].ok

\* the failures before the save that no handler recovers
DocFatal ==
    {i \in 1..Len(log) : /\ ~log[i].ok
                         /\ \/ log[i].op \in {"setup_logging", "open"}
                            \/ DocSecondAttempt(i)}

DocSaves == {i \in 1..Len(log) : log[i].op = "save"}

\* page p is Done: extracted once, every block scanned, and each of its
\* records marked, committed and inserted
DocPageDone(p) ==
    LET recs == DocPageRecords(p)
    IN  /\ Cardinality(LogAt("get_text", p)) = 1
        /\ {log[i].rec : i \in LogAt("scan", p)} = 1..Len(doc[p])
        /\ {log[i].rec : i \in LogAt("add_redact_annot", p)} = 1..Len(recs)
        /\ recs # <<>> => Cardinality(LogAt("apply_redactions", p)) = 1
        /\ \A k \in 1..Len(recs) :
              \E i \in LogAt("insert_textbox", p) : log[i].rec = k /\ log[i].ok

\* the run is not stuck: a block of the page is left to scan, or another
\* statement of process_pdf can execute
DocCanStep == (pc = "scan" /\ blockNo < Len(page_dict)) \/ ENABLED Next

DocNotBlank(span) == ~DocBlankSpan(span)

\* the spans of the line read so far
DocSpansRead == SubSeq(lines[lineNo], 1, pos)

C14_BlankStep ==
    (pos >= 0 /\ pos' = pos + 1 /\ DocBlankSpan(lines[lineNo][pos'])) =>
        /\ groups' = groups
        /\ current' = current
        /\ members' = members

C14_SameAsWithoutBlanks ==
    pos >= 0 =>
        groups = group_numeric_spans(SelectSeq(DocSpansRead, DocNotBlank), GAP_THRESHOLD)

\* C14: a loop step on a span that is empty after trimming changes neither
\* the Groups nor the open Group, and the Groups built from the spans read so
\* far are those built from the same spans with the blank ones removed.
C14_BlankSpanNoChange == [][C14_BlankStep]_vars /\ []C14_SameAsWithoutBlanks

\* two numeric spans with only a blank span between them were merged
C14_Witness ==
    /\ pos = 3
    /\ DocNumericSpan(lines[lineNo][1])
    /\ DocBlankSpan(lines[lineNo][2])
    /\ DocNumericSpan(lines[lineNo][3])
    /\ Len(groups) = 1
    /\ members[1] = <<<<lineNo, 1>>, <<lineNo, 3>>>>
    /\ groups[1].text = <<"1", ".", "5">>

RECURSIVE DocConcatNumeric(_)
DocConcatNumeric(spans) ==
    IF spans = <<>> THEN <<>>
    ELSE (IF DocNumericSpan(Head(spans)) THEN DocTrimmed(Head(spans)) ELSE <<>>)
         \o DocConcatNumeric(Tail(spans))

RECURSIVE DocConcatTexts(_)
DocConcatTexts(gs) ==
    IF gs = <<>> THEN <<>> ELSE Head(gs).text \o DocConcatTexts(Tail(gs))

\* C15: the Groups are in the order of their leading spans; every numeric
\* span read is a member of exactly one Group, at one place, and no other
\* span is a member; a Group's text is that of its members, and the Groups'
\* texts concatenated are the numeric spans' trimmed texts concatenated.
C15_EverySpanOnce ==
    pos >= 0 =>
        /\ \A i \in 1..(Len(groups) - 1) : members[i][1][2] < members[i + 1][1][2]
        /\ \A j \in 1..pos :
              LET places == {<<i, k>> \in (1..Len(groups)) \X (1..pos) :
                                k <= Len(members[i]) /\ members[i][k] = <<lineNo, j>>}
              IN  Cardinality(places) = (IF DocNumericSpan(lines[lineNo][j]) THEN 1 ELSE 0)
        /\ \A i \in 1..Len(groups) : groups[i].text = ConcatTrimmed(members[i])
        /\ DocConcatTexts(groups) = DocConcatNumeric(DocSpansRead)

\* a merged Group and a later Group, returned in the order of their leading spans
C15_Witness ==
    /\ pos = -1
    /\ lineNo = 1
    /\ Len(lines[1]) = 3
    /\ ~DocNumericSpan(lines[1][2])
    /\ ~DocBlankSpan(lines[1][2])
    /\ Len(found) = 2
    /\ found[1].group.text = <<".", "5">>
    /\ found[2].group.text = <<"1">>

DocNumericText(t) ==
    /\ t # <<>>
    /\ \A i \in 1..Len(t) : t[i] \in AsciiDigits \cup {".", "+", "-"}

\* the Groups of every page read so far, the page being scanned included
DocGroupsSoFar ==
    UNION {{DocGroups(doc[p])[i] : i \in 1..Len(DocGroups(doc[p]))} : p \in 1..(pageNo - 1)}
    \cup {ScannedGroups[i] : i \in 1..Len(ScannedGroups)}

\* C18: the text of every Group that group_numeric_spans returns to
\* process_pdf is non-empty and made of the characters 0-9, '.', '+' and '-'
\* only, so neither the degree filter nor the GD&T filter of
\* replacement_function fires for it.
C18_GroupTextNumeric ==
    \A g \in DocGroupsSoFar :
        /\ DocNumericText(g.text)
        /\ ~HasDegree(g.text)
        /\ ~HasGDT(g.text)

\* a line with the spans "Width", "4x10" and "45 deg" was scanned next to
\* two numeric lines: one Group came out of the block
C18_Witness ==
    /\ pc = "scan"
    /\ blockNo = 1
    /\ "lines" \in DOMAIN page_dict[1]
    /\ Len(page_dict[1].lines) = 3
    /\ \E k \in 1..Len(page_dict[1].lines[2].spans) :
           HasGDT(page_dict[1].lines[2].spans[k].text)
    /\ \E k \in 1..Len(page_dict[1].lines[2].spans) :
           HasDegree(page_dict[1].lines[2].spans[k].text)
    /\ Len(ScannedGroups) = 2
    /\ Len(replacements) = 1

DocFailedRunStops ==
    /\ \A i \in DocFatal : /\ i = Len(log)
                           /\ pc = "crashed"
                           /\ DocSaves = {}
    /\ (DocFatal = {} /\ DocSaves = {}) => /\ pc \notin {"crashed", "done"}
                                           /\ DocCanStep
    /\ DocSaves # {} => /\ DocFatal = {}
                        /\ pageNo = Len(doc)
                        /\ \A p \in 1..Len(doc) : DocPageDone(p)

\* C11: at every point of a run, a failure of the log setup, of the document
\* open or of a fallback insertion is the last thing the run did: no save, no
\* later record, no later page; a run without such a failure is never stopped
\* before the save, and when the save is executed every page has been
\* processed.
C11_FailedRunNeverSaves == []DocFailedRunStops

C11_Witness ==
    /\ pc = "crashed"
    /\ Len(doc) = 2
    /\ pageNo = 1
    /\ Len(replacements) = 3
    /\ DocPageRecords(2) # <<>>
    /\ Cardinality(LogAt("insert_textbox", 1)) = 2
    /\ DocFatal = {Len(log)}
    /\ log[Len(log)].rec = 1

\* page p has reached Done in the call history: extracted once, every block
\* scanned once, and either nothing marked, committed or inserted, or one
\* commit after the marks and a successful insertion for every marked record
DocPageFinished(p) ==
    LET marked == {log[i].rec : i \in LogAt("add_redact_annot", p)}
        inserts == LogAt("insert_textbox", p)
    IN  /\ Cardinality(LogAt("get_text", p)) = 1
        /\ {log[i].rec : i \in LogAt("scan", p)} = 1..Len(doc[p])
        /\ Cardinality(LogAt("apply_redactions", p)) = (IF marked = {} THEN 0 ELSE 1)
        /\ {log[i].rec : i \in inserts} = marked
        /\ \A k \in marked : \E i \in inserts : log[i].rec = k /\ log[i].ok

DocPagesInOrder ==
    LET gets == {i \in 1..Len(log) : log[i].op = "get_text"}
    IN  /\ {log[i].page : i \in gets} = 1..pageNo
        /\ \A q \in 1..pageNo : Cardinality(LogAt("get_text", q)) = 1
        /\ \A q \in 1..pageNo :
              Cardinality(LogAt("scan", q)) = Cardinality({log[i].rec : i \in LogAt("scan", q)})
        /\ \A i, j \in gets : i < j => log[i].page < log[j].page
        /\ \A i \in gets :
              \A j \in 1..Len(log) :
                  /\ (j < i /\ log[j].page # 0) => log[j].page < log[i].page
                  /\ (j > i /\ log[j].page # 0) => log[j].page >= log[i].page
        /\ \A q \in 1..(pageNo - 1) : DocPageFinished(q)
        /\ Cardinality(DocSaves) <= 1
        /\ \A s \in DocSaves :
              /\ pageNo = Len(doc)
              /\ \A q \in 1..Len(doc) : DocPageFinished(q)
              /\ \A j \in 1..Len(log) : log[j].page # 0 => j < s
        /\ pc \in {"startfile", "done"} =>
              /\ Cardinality(DocSaves) = 1
              /\ \A s \in DocSaves : log[s].ok

\* C12: at every point of a run, the pages have been extracted in document
\* order, each once; everything done on a page lies between its extraction
\* and the next one, and the page is Done when the next one is extracted; the
\* save is called at most once, after the last page is Done, and exactly once
\* in a run that ends normally.
C12_PagesInOrder == []DocPagesInOrder

C12_Witness ==
    /\ pc = "done"
    /\ Len(doc) = 2
    /\ Len(DocPageRecords(1)) = 3
    /\ Len(DocPageRecords(2)) = 1
    /\ Cardinality(LogAt("insert_textbox", 1)) = 4
    /\ Cardinality(DocSaves) = 1

\* C13 as stated: when the log file cannot be created, process_pdf is not
\* stopped by it.
C13_LogFailureDoesNotAbort ==
    (Len(log) >= 1 /\ log[1].op = "setup_logging" /\ ~log[1].ok) => pc # "crashed"

DocLast == log'[Len(log')]

\* a step of process_pdf that makes a call on the page: the call history only
\* grows; a mark, a commit or an insertion is made on the page being
\* processed and only when records were collected for it; a mark is made at
\* the rectangle of the record it is for, and an insertion at the rectangle of
\* its record, which is the rectangle marked for that record on that page
C19_Step ==
    log' # log =>
        /\ Len(log') = Len(log) + 1
        /\ SubSeq(log', 1, Len(log)) = log
        /\ DocLast.op \in {"add_redact_annot", "apply_redactions", "insert_textbox"} =>
              /\ DocLast.page = pageNo
              /\ pageNo' = pageNo
              /\ replacements' = replacements
              /\ replacements # <<>>
        /\ DocLast.op \in {"add_redact_annot", "insert_textbox"} =>
              /\ DocLast.rec \in 1..Len(replacements)
              /\ DocLast.args[1] = replacements[DocLast.rec][1]
        /\ DocLast.op = "insert_textbox" =>
              \E m \in LogAt("add_redact_annot", pageNo) :
                  /\ log[m].rec = DocLast.rec
                  /\ log[m].args[1] = DocLast.args[1]

\* C19: nothing is marked, committed or inserted on a page for which no
\* record was collected; every mark and every insertion on a page is at the
\* rectangle of the record of that page it is made for, and a record is
\* inserted at the rectangle it was marked at.
C19_OnlyOwnRectangles == [][C19_Step]_vars

C19_Witness ==
    /\ pc = "page"
    /\ pageNo = 2
    /\ doc[1] # <<>>
    /\ DocPageRecords(1) = <<>>
    /\ LogAt("scan", 1) # {}
    /\ Len(replacements) = 3
    /\ Cardinality(LogAt("add_redact_annot", 2)) = 3
    /\ \A k \in 1..3 : \E i \in LogAt("insert_textbox", 2) : log[i].rec = k /\ log[i].ok

====
